---- MODULE Spec2Model ----
(***************************************************************************)
(* Evidence-span grounding and structured-output schema normalisation of   *)
(* utils/llm_explainer.py.                                                 *)
(*                                                                         *)
(* A Python str is a sequence of one-character tokens.  Offsets are the    *)
(* 0-based offsets of the code: note[start:end] is                         *)
(* SubSeq(note, start + 1, end).                                           *)
(***************************************************************************)
EXTENDS Integers, Sequences, FiniteSets, TLC

VARIABLES
    note,          \* raw_note handed to _sanitize_spans
    spans,         \* the elements of `spans` the loop has consumed so far
    cleaned,       \* _sanitize_spans: cleaned
    used_ranges,   \* _sanitize_spans: used_ranges
    entries,       \* predict_codes_with_llm: the reply's code entries consumed so far
    normalized,    \* predict_codes_with_llm: normalized["icd_codes"/"cpt_codes"]
    resp_fmt,      \* the value last handed to or returned by _normalize_response_format
    calls,         \* how often _normalize_response_format has been applied to resp_fmt
    extras,        \* predict_codes_with_llm: the caller's options object
    request,       \* predict_codes_with_llm: model_name, icd_version and the module's settings
    pc,            \* predict_codes_with_llm: where the request stands
    payload,       \* _invoke_openai: the keyword arguments of client.responses.create
    provider_calls,\* how often client.responses.create has been called
    reply,         \* the response object the provider returned
    outcome,       \* predict_codes_with_llm: what the caller gets
    _OPENAI_CLIENT,\* the module global holding the shared client
    constructed,   \* how often OpenAI() has been called
    threads,       \* the worker threads inside _get_openai_client
    snippet_,      \* _locate_span: snippet
    search_start_, \* _locate_span: search_start
    iterations,    \* _locate_span: how often the body of the while loop has run
    located        \* _locate_span: where the call stands, then what it returned

vars ==
    <<note, spans, cleaned, used_ranges, entries, normalized, resp_fmt, calls,
      extras, request, pc, payload, provider_calls, reply, outcome,
      _OPENAI_CLIENT, constructed, threads,
      snippet_, search_start_, iterations, located>>

groundVars == <<note, spans, cleaned, used_ranges>>
entryVars == <<entries, normalized>>
schemaVars == <<resp_fmt, calls>>
requestVars == <<extras, request, pc, payload, provider_calls, reply, outcome>>
clientVars == <<_OPENAI_CLIENT, constructed, threads>>
locateVars == <<snippet_, search_start_, iterations, located>>

---------------------------------------------------------------------------
(* Bounds of the model. *)

MaxNoteLen == 3
MaxClaimLen == 2
MaxClaims == 2

\* SpecOne: the note and the single claim of an entry
MaxOneNoteLen == 4
MaxOneClaimLen == 4

\* SpecEntries: the note, the claims of an entry and the entries of a reply
MaxEntryNoteLen == 2
MaxEntryClaimLen == 1
MaxEntryClaims == 2
MaxEntries == 2

\* SpecSchema: how often the normaliser is applied to its own result
MaxCalls == 2

\* SpecReply: content parts of a reply
MaxParts == 2

\* SpecBuckets: entries of the icd_codes bucket
MaxBucketLen == 3

\* SpecClient: worker threads and the requests each of them serves
NumThreads == 2
MaxServed == 2

\* SpecLocate: the note, the snippet and the ranges in used_ranges
MaxLocateNoteLen == 3
MaxLocateSnippetLen == 2
MaxLocateUsed == 2

\* SpecFolded: the note and the claims
MaxFoldedNoteLen == 3
MaxFoldedClaimLen == 2

\* The characters notes and claims are drawn from: a letter in both cases,
\* a whitespace character, a quotation character, a punctuation character.
Alphabet == {"a", "A", " ", "\"", "."}

\* SpecOne goes to longer notes and claims over the alphabet without the
\* whitespace character.
OneAlphabet == {"a", "A", "\"", "."}

RECURSIVE StringsOfLen(_, _)
StringsOfLen(A, n) ==
    IF n = 0 THEN {<<>>}
    ELSE {Append(s, c) : s \in StringsOfLen(A, n - 1), c \in A}

StringsUpTo(A, n) == UNION {StringsOfLen(A, k) : k \in 0..n}

Notes == StringsUpTo(Alphabet, MaxNoteLen)

Claims == StringsUpTo(Alphabet, MaxClaimLen)

---------------------------------------------------------------------------
(* Python str primitives. *)

\* str.isspace() characters that str.strip() removes
Whitespace == {" ", "\t", "\n", "\r", "\f"}

QUOTE_CHARS ==
    {"\"", "'", "ldquo", "rdquo", "lsquo", "rsquo",
     "laquo", "raquo", "lsaquo", "rsaquo", "bdquo", "hirev9quo"}

TRAILING_PUNCTUATION == {".", ",", ";", ":", "!", "?"}

\* str.lower() of one character: a string, which for the capital I with
\* dot above (U+0130, "Idot") is an i followed by a combining dot (U+0307)
LowerChar(c) ==
    CASE c = "A" -> <<"a">>
      [] c = "B" -> <<"b">>
      [] c = "Idot" -> <<"i", "dot">>
      [] OTHER -> <<c>>

RECURSIVE Lower(_)
\* str.lower()
Lower(s) == IF s = <<>> THEN <<>> ELSE LowerChar(s[1]) \o Lower(Tail(s))

\* s[start:end] for 0 <= start <= end <= len(s)
Slice(s, start, end) == SubSeq(s, start + 1, end)

RECURSIVE LStripChars(_, _)
\* str.lstrip(chars)
LStripChars(s, chars) ==
    IF s # <<>> /\ s[1] \in chars THEN LStripChars(Tail(s), chars) ELSE s

RECURSIVE RStripChars(_, _)
\* str.rstrip(chars)
RStripChars(s, chars) ==
    IF s # <<>> /\ s[Len(s)] \in chars
    THEN RStripChars(SubSeq(s, 1, Len(s) - 1), chars)
    ELSE s

\* str.strip(chars)
StripChars(s, chars) == RStripChars(LStripChars(s, chars), chars)

\* str.strip()
Strip(s) == StripChars(s, Whitespace)

SetMin(S) == CHOOSE x \in S : \A y \in S : x <= y

\* str.find(sub, start) for non-empty sub: lowest index >= start, or -1
Find(s, sub, start) ==
    LET hits == {i \in start..(Len(s) - Len(sub)) : Slice(s, i, i + Len(sub)) = sub}
    IN  IF hits = {} THEN -1 ELSE SetMin(hits)

---------------------------------------------------------------------------
(* _locate_span *)

\* return None
None == <<>>

\* mutant: only an occurrence that starts inside a used range counts
OverlapsStartInside(idx, end, used) ==
    \E k \in 1..Len(used) : used[k][1] <= idx /\ idx < used[k][2]

\* mutant: a range that touches a used range counts as overlapping it
OverlapsOrTouches(idx, end, used) ==
    \E k \in 1..Len(used) : ~(end < used[k][1] \/ idx > used[k][2])

\* any(not (end <= start or idx >= stop) for start, stop in used_ranges)
Overlaps(idx, end, used) ==
    \E k \in 1..Len(used) : ~(end <= used[k][1] \/ idx >= used[k][2])

\* mutant: the scan gives up at the first occurrence that overlaps
LocateFromNoRetry(n, snippet, used, search_start) ==
    LET exact == Find(n, snippet, search_start)
        idx == IF exact = -1
               THEN Find(Lower(n), Lower(snippet), search_start)
               ELSE exact
        end == idx + Len(snippet)
    IN  IF idx = -1 \/ Overlaps(idx, end, used) THEN None ELSE <<idx, end>>

RECURSIVE LocateFrom(_, _, _, _)
\* the while loop of _locate_span, entered with search_start
LocateFrom(n, snippet, used, search_start) ==
    IF search_start > Len(n) THEN None
    ELSE
      LET exact == Find(n, snippet, search_start)
          idx == IF exact = -1
                 THEN Find(Lower(n), Lower(snippet), search_start)
                 ELSE exact
          end == idx + Len(snippet)
      IN  IF idx = -1 THEN None
          ELSE IF Overlaps(idx, end, used)
               THEN LocateFrom(n, snippet, used, idx + 1)
               ELSE <<idx, end>>

_locate_span(n, snippet, used) ==
    LET s == Strip(snippet)
    IN  IF s = <<>> THEN None ELSE LocateFrom(n, s, used, 0)

---------------------------------------------------------------------------
(* _span_candidates *)

\* the nested add(): strip, skip empty and already-present values
add(candidates, value) ==
    LET v == Strip(value)
    IN  IF v # <<>> /\ \A k \in 1..Len(candidates) : candidates[k] # v
        THEN Append(candidates, v)
        ELSE candidates

\* mutant: the variant with the wrapping quotes stripped is left out
CandidatesKeepingQuotes(snippet) ==
    LET cleaned_ == Strip(snippet)
        c1 == add(<<>>, cleaned_)
        c4 == IF cleaned_[1] \in QUOTE_CHARS THEN add(c1, Tail(cleaned_)) ELSE c1
        c5 == IF cleaned_[Len(cleaned_)] \in QUOTE_CHARS
              THEN add(c4, SubSeq(cleaned_, 1, Len(cleaned_) - 1))
              ELSE c4
    IN  IF cleaned_ = <<>> THEN <<>> ELSE c5

\* mutant: trailing punctuation is never stripped
CandidatesKeepingPunctuation(snippet) ==
    LET cleaned_ == Strip(snippet)
        without_quotes == StripChars(cleaned_, QUOTE_CHARS)
        c1 == add(<<>>, cleaned_)
        c2 == add(c1, without_quotes)
        c4 == IF cleaned_[1] \in QUOTE_CHARS THEN add(c2, Tail(cleaned_)) ELSE c2
        c5 == IF cleaned_[Len(cleaned_)] \in QUOTE_CHARS
              THEN add(c4, SubSeq(cleaned_, 1, Len(cleaned_) - 1))
              ELSE c4
    IN  IF cleaned_ = <<>> THEN <<>> ELSE c5

_span_candidates(snippet) ==
    LET cleaned_ == Strip(snippet)
        without_quotes == StripChars(cleaned_, QUOTE_CHARS)
        without_trailing == RStripChars(without_quotes, TRAILING_PUNCTUATION)
        c1 == add(<<>>, cleaned_)
        c2 == add(c1, without_quotes)
        c3 == add(c2, without_trailing)
        c4 == IF cleaned_[1] \in QUOTE_CHARS THEN add(c3, Tail(cleaned_)) ELSE c3
        c5 == IF cleaned_[Len(cleaned_)] \in QUOTE_CHARS
              THEN add(c4, SubSeq(cleaned_, 1, Len(cleaned_) - 1))
              ELSE c4
    IN  IF cleaned_ = <<>> THEN <<>> ELSE c5

---------------------------------------------------------------------------
(* _sanitize_spans *)

\* An element of the `spans` list of the reply.  is_dict, text_is_str and
\* expl_is_str carry the isinstance() answers; text and explanation are the
\* string values when they are strings.
SpanItem(is_dict, text_is_str, text, expl_is_str, explanation) ==
    [is_dict |-> is_dict, text_is_str |-> text_is_str, text |-> text,
     expl_is_str |-> expl_is_str, explanation |-> explanation]

\* {"text": t, "explanation": " e"}
Claim(t) == SpanItem(TRUE, TRUE, t, TRUE, <<" ", "e">>)

SpanInputs ==
    {Claim(t) : t \in Claims}
      \cup {SpanItem(FALSE, FALSE, <<>>, FALSE, <<>>),
            SpanItem(TRUE, FALSE, <<>>, TRUE, <<"e">>),
            SpanItem(TRUE, TRUE, <<"a">>, FALSE, <<>>)}

RECURSIVE FirstMatch(_, _, _, _)
\* the for loop over _span_candidates(text), from candidate k on
FirstMatch(n, candidates, used, k) ==
    IF k > Len(candidates) THEN None
    ELSE LET match == _locate_span(n, candidates[k], used)
         IN  IF match # None THEN match ELSE FirstMatch(n, candidates, used, k + 1)

\* mutant: a text of whitespace only is not skipped
SkippedUnlessBlank(span) ==
    \/ ~span.is_dict
    \/ ~span.text_is_str
    \/ span.text = <<>>

\* is the element skipped by one of the two `continue`s?
Skipped(span) ==
    \/ ~span.is_dict
    \/ ~span.text_is_str
    \/ Strip(span.text) = <<>>

\* one iteration of the for loop for an element that is not skipped:
\* the span appended to cleaned
Grounded(n, span, used) ==
    LET direct == _locate_span(n, span.text, used)
        match == IF direct # None THEN direct
                 ELSE FirstMatch(n, _span_candidates(span.text), used, 1)
        matched_text == IF direct = None /\ match # None
                        THEN Slice(n, match[1], match[2])
                        ELSE Strip(span.text)
    IN  [text |-> matched_text,
         start |-> IF match = None THEN -1 ELSE match[1],
         end |-> IF match = None THEN -1 ELSE match[2],
         explanation |-> IF span.expl_is_str THEN Strip(span.explanation) ELSE <<>>]

\* mutant: the range is recorded whether or not the claim matched
UsedAfterAlways(used, out) == Append(used, <<out.start, out.end>>)

\* used_ranges after the iteration
UsedAfter(used, out) ==
    IF out.start >= 0 THEN Append(used, <<out.start, out.end>>) ELSE used

\* mutant: the list of the previous call is used again
StaleUsedRanges == used_ranges

\* used_ranges: List[Tuple[int, int]] = []
FreshUsedRanges == <<>>

RECURSIVE SanitizeFrom(_, _, _, _)
\* the for loop of _sanitize_spans from element k on; acc holds cleaned and
\* used_ranges
SanitizeFrom(n, items, k, acc) ==
    IF k > Len(items) THEN acc
    ELSE IF Skipped(items[k]) THEN SanitizeFrom(n, items, k + 1, acc)
    ELSE LET out == Grounded(n, items[k], acc.used)
         IN  SanitizeFrom(n, items, k + 1,
                          [cleaned |-> Append(acc.cleaned, out),
                           used |-> UsedAfter(acc.used, out)])

\* a whole call of _sanitize_spans on a value that is a list when is_list:
\* the locals cleaned and used_ranges at return
SanitizeRun(is_list, items, n) ==
    IF ~is_list THEN [cleaned |-> <<>>, used |-> <<>>]
    ELSE SanitizeFrom(n, items, 1, [cleaned |-> <<>>, used |-> FreshUsedRanges])

_sanitize_spans(is_list, items, n) == SanitizeRun(is_list, items, n).cleaned

---------------------------------------------------------------------------
(* Idle values of the variables a specification does not use. *)

NoEntries == <<>>
NoNormalized == [icd_codes |-> <<>>, cpt_codes |-> <<>>]
NoFormat == <<"none", "none">>

EntryIdle == entries = NoEntries /\ normalized = NoNormalized
SchemaIdle == resp_fmt = NoFormat /\ calls = 0
GroundIdle == spans = <<>> /\ cleaned = <<>> /\ used_ranges = <<>>
ClientIdle == _OPENAI_CLIENT = 0 /\ constructed = 0 /\ threads = <<>>
LocateIdle ==
    snippet_ = <<>> /\ search_start_ = 0 /\ iterations = 0 /\ located = <<"idle">>
RequestIdle ==
    /\ extras = <<"none", "none">>
    /\ request = <<>>
    /\ pc = "idle"
    /\ payload = <<"none", "none">>
    /\ provider_calls = 0
    /\ reply = <<"none", "none">>
    /\ outcome = <<"none", "none">>

---------------------------------------------------------------------------
(* Spec: _sanitize_spans over the claims of one code entry, one loop       *)
(* iteration per step.                                                     *)

Init ==
    /\ note \in Notes
    /\ spans = <<>>
    /\ cleaned = <<>>
    /\ used_ranges = FreshUsedRanges
    /\ EntryIdle
    /\ SchemaIdle
    /\ RequestIdle
    /\ ClientIdle
    /\ LocateIdle

\* mutant: the newest span goes to the front of cleaned
IterateNewestFirst(span) ==
    /\ spans' = Append(spans, span)
    /\ IF Skipped(span)
       THEN UNCHANGED <<cleaned, used_ranges>>
       ELSE LET out == Grounded(note, span, used_ranges)
            IN  /\ cleaned' = <<out>> \o cleaned
                /\ used_ranges' = UsedAfter(used_ranges, out)
    /\ UNCHANGED <<note, entryVars, schemaVars, requestVars, clientVars, locateVars>>

\* One iteration of `for span in spans` of _sanitize_spans.
Iterate(span) ==
    /\ spans' = Append(spans, span)
    /\ IF Skipped(span)
       THEN UNCHANGED <<cleaned, used_ranges>>
       ELSE LET out == Grounded(note, span, used_ranges)
            IN  /\ cleaned' = Append(cleaned, out)
                /\ used_ranges' = UsedAfter(used_ranges, out)
    /\ UNCHANGED <<note, entryVars, schemaVars, requestVars, clientVars, locateVars>>

SanitizeSpan(span) ==
    /\ Len(spans) < MaxClaims
    /\ Iterate(span)

Next == \E span \in SpanInputs : SanitizeSpan(span)

Spec == Init /\ [][Next]_vars

---------------------------------------------------------------------------
(* SpecOne: _sanitize_spans on an entry with a single claim.               *)

InitOne ==
    /\ note \in StringsUpTo(OneAlphabet, MaxOneNoteLen)
    /\ spans = <<>>
    /\ cleaned = <<>>
    /\ used_ranges = FreshUsedRanges
    /\ EntryIdle
    /\ SchemaIdle
    /\ RequestIdle
    /\ ClientIdle
    /\ LocateIdle

\* The iteration of the loop of _sanitize_spans for the only element.
SanitizeOnly(span) ==
    /\ spans = <<>>
    /\ Iterate(span)

NextOne == \E t \in StringsUpTo(OneAlphabet, MaxOneClaimLen) : SanitizeOnly(Claim(t))

SpecOne == InitOne /\ [][NextOne]_vars

---------------------------------------------------------------------------
(* SpecEntries: the bucket loop of predict_codes_with_llm, one code entry   *)
(* per step.                                                               *)

\* An element of parsed["icd_codes"] or parsed["cpt_codes"]; the *_is_str and
\* is_list fields carry the isinstance() answers.
Entry(is_dict, code_is_str, description_is_str, explanation_is_str, is_list, items) ==
    [is_dict |-> is_dict,
     code_is_str |-> code_is_str, code |-> <<" ", "c">>,
     description_is_str |-> description_is_str, description |-> <<"d", " ">>,
     explanation_is_str |-> explanation_is_str, explanation |-> <<" ", "x", " ">>,
     is_list |-> is_list, evidence_spans |-> items]

RECURSIVE ListsOfLen(_, _)
ListsOfLen(S, n) ==
    IF n = 0 THEN {<<>>}
    ELSE {Append(l, x) : l \in ListsOfLen(S, n - 1), x \in S}

ListsUpTo(S, n) == UNION {ListsOfLen(S, k) : k \in 0..n}

EntryNotes == StringsUpTo(Alphabet, MaxEntryNoteLen)

\* lists of claims, and two lists holding an element that is no mapping or
\* has no string text
EntrySpanLists ==
    ListsUpTo({Claim(t) : t \in StringsUpTo(Alphabet, MaxEntryClaimLen)}, MaxEntryClaims)
      \cup {<<SpanItem(FALSE, FALSE, <<>>, FALSE, <<>>), Claim(<<"a">>)>>,
            <<Claim(<<"A">>), SpanItem(TRUE, FALSE, <<>>, TRUE, <<"e">>)>>}

EntryInputs ==
    {Entry(TRUE, TRUE, TRUE, TRUE, TRUE, items) : items \in EntrySpanLists}
      \cup {Entry(FALSE, FALSE, FALSE, FALSE, FALSE, <<>>),
            Entry(TRUE, FALSE, TRUE, TRUE, TRUE, <<Claim(<<"a">>)>>),
            Entry(TRUE, TRUE, FALSE, TRUE, TRUE, <<Claim(<<"A">>)>>),
            Entry(TRUE, TRUE, TRUE, FALSE, TRUE, <<>>),
            Entry(TRUE, TRUE, TRUE, TRUE, FALSE, <<>>)}

\* the tuple the outer for loop runs over
Buckets == <<"icd_codes", "cpt_codes">>

BucketIndex(b) == CHOOSE k \in 1..Len(Buckets) : Buckets[k] = b

\* Kept without the test of the explanation
KeptLoosely(entry) ==
    /\ entry.is_dict
    /\ entry.code_is_str
    /\ entry.description_is_str

\* the entry reaches normalized_entries.append
Kept(entry) ==
    /\ entry.is_dict
    /\ entry.code_is_str
    /\ entry.description_is_str
    /\ entry.explanation_is_str

InitEntries ==
    /\ note \in EntryNotes
    /\ GroundIdle
    /\ ClientIdle
    /\ LocateIdle
    /\ entries = NoEntries
    /\ normalized = NoNormalized
    /\ SchemaIdle
    /\ RequestIdle

\* One iteration of `for entry in entries` for an entry of bucket b.
NormalizeEntry(b, entry) ==
    /\ Len(entries) < MaxEntries
    /\ entries # <<>> =>
          BucketIndex(entries[Len(entries)].bucket) <= BucketIndex(b)
    /\ entries' = Append(entries, [bucket |-> b, entry |-> entry])
    /\ IF ~entry.is_dict
       THEN UNCHANGED <<spans, cleaned, used_ranges, normalized>>
       ELSE LET run == SanitizeRun(entry.is_list, entry.evidence_spans, note)
            IN  /\ spans' = entry.evidence_spans
                /\ cleaned' = run.cleaned
                /\ used_ranges' = run.used
                /\ normalized' =
                      IF Kept(entry)
                      THEN [normalized EXCEPT ![b] =
                              Append(@, [code |-> Strip(entry.code),
                                         description |-> Strip(entry.description),
                                         explanation |-> Strip(entry.explanation),
                                         evidence_spans |-> run.cleaned])]
                      ELSE normalized
    /\ UNCHANGED <<note, schemaVars, requestVars, clientVars, locateVars>>

NextEntries ==
    \E k \in 1..Len(Buckets) : \E entry \in EntryInputs :
        NormalizeEntry(Buckets[k], entry)

SpecEntries == InitEntries /\ [][NextEntries]_vars

---------------------------------------------------------------------------
(* _normalize_response_format *)

\* Python values: a pair of the type and the value.  A dict is a function from
\* DictKeys to values, Absent standing for a key the dict does not have; the
\* properties mapping is the sequence of its keys, in declaration order.
Absent == <<"absent", "absent">>
PyNone == <<"none", "none">>
Str(x) == <<"str", x>>
Bool(b) == <<"bool", b>>
Number(k) == <<"int", k>>
List(items) == <<"list", items>>
Props(names) == <<"props", names>>
Dict(d) == <<"dict", d>>
TypeOf(x) == x[1]
ValueOf(x) == x[2]

DictKeys ==
    {"type", "json_schema", "name", "schema", "strict",
     "properties", "required", "additionalProperties"}

EmptyDict == [k \in DictKeys |-> Absent]

\* isinstance(x, dict)
IsDict(x) == TypeOf(x) \in {"dict", "props", "opts"}

\* d.get(k)
Get(d, k) == IF d[k] = Absent THEN PyNone ELSE d[k]

\* bool(x)
Truthy(x) ==
    CASE TypeOf(x) = "none" -> FALSE
      [] TypeOf(x) = "dict" -> ValueOf(x) # EmptyDict
      [] TypeOf(x) = "opts" -> \E k \in DOMAIN ValueOf(x) : ValueOf(x)[k] # Absent
      [] TypeOf(x) \in {"props", "list"} -> ValueOf(x) # <<>>
      [] TypeOf(x) = "str" -> ValueOf(x) # ""
      [] TypeOf(x) = "bool" -> ValueOf(x)
      [] TypeOf(x) = "int" -> ValueOf(x) # 0
      [] OTHER -> FALSE

\* x or {}
OrEmptyDict(x) == IF Truthy(x) THEN x ELSE Dict(EmptyDict)

\* what a call does: return a value or raise
Return(x) == [raised |-> FALSE, error |-> "", value |-> x]
Raise(e, message) == [raised |-> TRUE, error |-> e, value |-> Str(message)]

\* dict(x) raises for an x that is no mapping: ValueError for a non-empty
\* str, TypeError for a number
DictOfRaises(x) == ~IsDict(x)
DictOfError(x) == IF TypeOf(x) = "str" THEN "ValueError" ELSE "TypeError"

\* d.setdefault(k, x) on a copy
SetDefault(d, k, x) == IF d[k] = Absent THEN [d EXCEPT ![k] = x] ELSE d

\* lines 563-581: the object defaults and the returned wire format
Reshape(name, schema) ==
    LET has_object_shape ==
            \/ Get(schema, "type") = Str("object")
            \/ schema["properties"] # Absent
            \/ schema["required"] # Absent
        s1 == SetDefault(schema, "type", Str("object"))
        s2 == SetDefault(s1, "properties", Props(<<>>))
        s3 == SetDefault(s2, "additionalProperties", Bool(FALSE))
        props == Get(s3, "properties")
        s4 == IF IsDict(props) /\ s3["required"] = Absent
              THEN [s3 EXCEPT !["required"] = List(ValueOf(props))]
              ELSE s3
    IN  Return(Dict([EmptyDict EXCEPT
                       !["type"] = Str("json_schema"),
                       !["name"] = name,
                       !["schema"] = Dict(IF has_object_shape THEN s4 ELSE schema),
                       !["strict"] = Bool(TRUE)]))

_normalize_response_format(fmt) ==
    IF ~IsDict(fmt) THEN Return(fmt)
    ELSE IF Get(ValueOf(fmt), "type") # Str("json_schema")
    THEN Raise("ValueError", "response_format must have top-level 'type': 'json_schema'")
    ELSE
      LET given == OrEmptyDict(Get(ValueOf(fmt), "json_schema"))
      IN  IF DictOfRaises(given) THEN Raise(DictOfError(given), "dict()")
          ELSE
            LET js == ValueOf(given)
                name == IF js["name"] = Absent THEN Str("StructuredSchema") ELSE js["name"]
                nested == OrEmptyDict(Get(js, "schema"))
            IN  IF js["schema"] # Absent
                THEN IF DictOfRaises(nested) THEN Raise(DictOfError(nested), "dict()")
                     ELSE Reshape(name, ValueOf(nested))
                ELSE Reshape(name, [js EXCEPT !["name"] = Absent])

---------------------------------------------------------------------------
(* SpecSchema: _normalize_response_format applied to a response format and *)
(* then to its own result.                                                 *)

\* schema bodies: type, properties, required, additionalProperties, each
\* present or not
SchemaBodies ==
    {[EmptyDict EXCEPT !["type"] = ty, !["properties"] = pr,
                       !["required"] = rq, !["additionalProperties"] = ap] :
        ty \in {Absent, Str("object"), Str("array")},
        pr \in {Absent, Props(<<>>), Props(<<"p">>), Props(<<"p", "q">>),
                Props(<<"q", "p">>), List(<<"p">>)},
        rq \in {Absent, List(<<>>), List(<<"p">>)},
        ap \in {Absent, Bool(TRUE), Bool(FALSE)}}

\* the value under "json_schema": the schema nested under "schema" or
\* flattened beside "name"
JsonSchemas ==
    {Dict([body EXCEPT !["name"] = nm]) :
        body \in SchemaBodies, nm \in {Absent, Str("CodingPrediction")}}
      \cup {Dict([EmptyDict EXCEPT !["name"] = nm, !["schema"] = Dict(body)]) :
              body \in SchemaBodies, nm \in {Absent, Str("CodingPrediction")}}
      \cup {Dict([EmptyDict EXCEPT !["schema"] = x]) : x \in {PyNone, Str("x"), Number(5)}}
      \cup {PyNone, Str("x"), Number(5)}

\* LLM_RESPONSE_SCHEMA: the outer object of the schema the requests carry
LLM_RESPONSE_SCHEMA ==
    Dict([EmptyDict EXCEPT
            !["type"] = Str("json_schema"),
            !["json_schema"] =
                Dict([EmptyDict EXCEPT
                        !["name"] = Str("CodingPrediction"),
                        !["schema"] =
                            Dict([EmptyDict EXCEPT
                                    !["type"] = Str("object"),
                                    !["properties"] = Props(<<"p", "q">>),
                                    !["required"] = List(<<"p", "q">>),
                                    !["additionalProperties"] = Bool(FALSE)])])])

SchemaInputs ==
    {Dict([EmptyDict EXCEPT !["type"] = ty, !["json_schema"] = js]) :
        ty \in {Absent, Str("json_schema"), Str("json_object")},
        js \in JsonSchemas \cup {Absent}}
      \cup {PyNone, Str("x"), LLM_RESPONSE_SCHEMA}

InitSchema ==
    /\ resp_fmt \in SchemaInputs
    /\ calls = 0
    /\ note = <<>>
    /\ GroundIdle
    /\ ClientIdle
    /\ LocateIdle
    /\ EntryIdle
    /\ RequestIdle

\* A call of _normalize_response_format that returns.
Normalize ==
    /\ calls < MaxCalls
    /\ TypeOf(resp_fmt) # "raised"
    /\ ~_normalize_response_format(resp_fmt).raised
    /\ resp_fmt' = _normalize_response_format(resp_fmt).value
    /\ calls' = calls + 1
    /\ UNCHANGED <<groundVars, entryVars, requestVars, clientVars, locateVars>>

\* A call of _normalize_response_format that raises.
NormalizeRaises ==
    /\ calls < MaxCalls
    /\ TypeOf(resp_fmt) # "raised"
    /\ _normalize_response_format(resp_fmt).raised
    /\ resp_fmt' = <<"raised", _normalize_response_format(resp_fmt).error>>
    /\ calls' = calls + 1
    /\ UNCHANGED <<groundVars, entryVars, requestVars, clientVars, locateVars>>

NextSchema == Normalize \/ NormalizeRaises

SpecSchema == InitSchema /\ [][NextSchema]_vars

---------------------------------------------------------------------------
(* Request building: _filter_extras, _prepare_responses_kwargs,            *)
(* _maybe_add_minimal_reasoning, _invoke_openai                            *)

\* the keys of the option mappings, of the mappings nested in them and of
\* the payload
OptionKeys ==
    {"model", "input", "max_output_tokens", "reasoning_effort", "reasoning",
     "max_tokens", "max_completion_tokens", "text", "extra_body",
     "temperature", "effort", "format"}

ALLOWED_EXTRA_KEYS == {"max_output_tokens", "reasoning_effort", "reasoning"}

\* an option mapping: a function from OptionKeys to values
Opts(d) == <<"opts", d>>
NoOptions == [k \in OptionKeys |-> Absent]

\* a.update(b) on a copy of a
Update(a, b) == [k \in OptionKeys |-> IF b[k] # Absent THEN b[k] ELSE a[k]]

\* d.pop(k, ...) on a copy of d
Without(d, k) == [d EXCEPT ![k] = Absent]

\* _filter_extras without the allow-list
FilterNothing(e) ==
    IF ~Truthy(e) THEN NoOptions
    ELSE [k \in OptionKeys |->
            IF ValueOf(e)[k] \notin {Absent, PyNone} THEN ValueOf(e)[k] ELSE Absent]

_filter_extras(e) ==
    IF ~Truthy(e) THEN NoOptions
    ELSE [k \in OptionKeys |->
            IF k \in ALLOWED_EXTRA_KEYS /\ ValueOf(e)[k] \notin {Absent, PyNone}
            THEN ValueOf(e)[k]
            ELSE Absent]

\* payload_options of predict_codes_with_llm
PayloadOptions(e) ==
    Update([NoOptions EXCEPT !["max_output_tokens"] = Number(5000)],
           _filter_extras(e))

\* _prepare_responses_kwargs: `prepared` is a shallow copy, so a mapping
\* under "text" is the caller's object and a write into it shows in
\* `options` too.  The result is the returned mapping and the caller's
\* mapping as the call leaves it.
_prepare_responses_kwargs(options) ==
    LET reasoning_effort == Get(options, "reasoning_effort")
        p1 == Without(options, "reasoning_effort")
        p2 == IF Truthy(reasoning_effort) /\ p1["reasoning"] = Absent
              THEN [p1 EXCEPT !["reasoning"] =
                       Opts([NoOptions EXCEPT !["effort"] = reasoning_effort])]
              ELSE p1
        p3 == IF p2["max_tokens"] # Absent /\ p2["max_output_tokens"] = Absent
              THEN [Without(p2, "max_tokens") EXCEPT
                       !["max_output_tokens"] = p2["max_tokens"]]
              ELSE p2
        max_completion == Get(p3, "max_completion_tokens")
        p4 == Without(p3, "max_completion_tokens")
        text_cfg == IF p4["text"] = Absent THEN Opts(NoOptions) ELSE p4["text"]
        written == Opts([(IF IsDict(text_cfg) THEN ValueOf(text_cfg) ELSE NoOptions)
                            EXCEPT !["max_output_tokens"] = max_completion])
    IN  IF max_completion = PyNone
        THEN [prepared |-> p4, options |-> options]
        ELSE [prepared |-> [p4 EXCEPT !["text"] = written],
              options |-> IF options["text"] # Absent /\ IsDict(options["text"])
                          THEN [options EXCEPT !["text"] = written]
                          ELSE options]

\* str.startswith
StartsWith(s, prefix) ==
    Len(s) >= Len(prefix) /\ SubSeq(s, 1, Len(prefix)) = prefix

\* _maybe_add_minimal_reasoning taking the configured value as it is
AddConfiguredReasoning(model_name, p, default_effort) ==
    IF ~StartsWith(model_name, <<"gpt-5">>) THEN p
    ELSE IF p["reasoning"] # Absent \/ p["reasoning_effort"] # Absent THEN p
    ELSE [p EXCEPT !["reasoning"] =
             Opts([NoOptions EXCEPT !["effort"] = Str(default_effort)])]

\* _maybe_add_minimal_reasoning, as the payload it leaves
_maybe_add_minimal_reasoning(model_name, p, default_effort) ==
    IF ~StartsWith(model_name, <<"gpt-5">>) THEN p
    ELSE IF p["reasoning"] # Absent \/ p["reasoning_effort"] # Absent THEN p
    ELSE [p EXCEPT !["reasoning"] =
             Opts([NoOptions EXCEPT !["effort"] =
                      Str(IF default_effort \in {"minimal", "low", "medium", "high"}
                          THEN default_effort
                          ELSE "minimal")])]

\* x or {} for an option value
OrNoOptions(x) == IF Truthy(x) THEN x ELSE Opts(NoOptions)

\* the mapping under options["text"] is the object that ends up under
\* payload["text"]
TextShared(options) == options["text"] # Absent /\ IsDict(options["text"])

\* the one element of a singleton: S is written {e} to have e computed once
Only(S) == CHOOSE x \in S : TRUE

\* lines 260-272 of _invoke_openai, from the payload after extra_body was
\* popped
AttachFormat(response_format, options, prep, format, p2, extra_body) ==
    LET text_cfg == IF p2["text"] = Absent THEN Opts(NoOptions) ELSE p2["text"]
        text == Opts([(IF IsDict(text_cfg) THEN ValueOf(text_cfg) ELSE NoOptions)
                         EXCEPT !["format"] = format.value])
        p3 == IF response_format = PyNone THEN p2 ELSE [p2 EXCEPT !["text"] = text]
        p4 == IF p3["text"] # Absent /\ ~Truthy(p3["text"])
              THEN Without(p3, "text") ELSE p3
    IN  IF DictOfRaises(extra_body)
        THEN [raised |-> TRUE, error |-> DictOfError(extra_body),
              payload |-> PyNone, options |-> prep.options]
        ELSE IF response_format # PyNone /\ format.raised
        THEN [raised |-> TRUE, error |-> format.error,
              payload |-> PyNone, options |-> prep.options]
        ELSE [raised |-> FALSE, error |-> "",
              payload |-> Opts(IF Truthy(extra_body)
                               THEN [p4 EXCEPT !["extra_body"] = extra_body]
                               ELSE p4),
              options |-> IF response_format # PyNone /\ TextShared(options)
                          THEN [prep.options EXCEPT !["text"] = text]
                          ELSE prep.options]

\* lines 247-258 of _invoke_openai: the payload after
\* _maybe_add_minimal_reasoning
PayloadOf(model_name, prep, default_effort) ==
    _maybe_add_minimal_reasoning(
        model_name,
        Update([NoOptions EXCEPT !["model"] = <<"name", model_name>>,
                                 !["input"] = Str("input")],
               prep.prepared),
        default_effort)

\* lines 247-272 of _invoke_openai: the payload handed to
\* client.responses.create, or the exception raised on the way, and the
\* caller's options mapping as the call leaves it
_invoke_openai(model_name, response_format, options, default_effort) ==
    Only({Only({AttachFormat(response_format, o, prep, format,
                             Without(p1, "extra_body"),
                             OrNoOptions(IF p1["extra_body"] = Absent
                                         THEN Opts(NoOptions)
                                         ELSE p1["extra_body"])) :
                  p1 \in {PayloadOf(model_name, prep, default_effort)}}) :
            o \in {options},
            prep \in {_prepare_responses_kwargs(options)},
            format \in {_normalize_response_format(response_format)}})

---------------------------------------------------------------------------
(* The provider's reply: _safe_json_loads, _extract_parsed_output,         *)
(* _extract_output_text                                                    *)

\* Reply texts are sequences of these tokens; a text is JSON when it is
\* "{" "}" (an object: the mapping the reply carries as `body`), "[]" (an
\* array) or "null"; whitespace around it does not matter.
JsonTokens == {"{", "}", "[]", "null", "x", " "}

\* json.loads: the decoded value, or a JSONDecodeError
json_loads(text, body) ==
    LET t == Strip(text)
    IN  IF t = <<"{", "}">> THEN Return(<<"mapping", body>>)
        ELSE IF t = <<"[]">> THEN Return(List(<<>>))
        ELSE IF t = <<"null">> THEN Return(PyNone)
        ELSE Raise("JSONDecodeError", "json.loads")

\* a text attribute: None or a str
NoText == PyNone
Text(t) == <<"text", t>>
HasText(x) == TypeOf(x) = "text" /\ ValueOf(x) # <<>>

_safe_json_loads(x, body) ==
    IF ~HasText(x) THEN PyNone
    ELSE IF json_loads(ValueOf(x), body).raised THEN PyNone
    ELSE json_loads(ValueOf(x), body).value

\* a content part: parsed is None, a mapping, a list or a model object
\* (something with model_dump())
Part(parsed, type, text) == [parsed |-> parsed, type |-> type, text |-> text]

\* the response object: its content parts in the order the loops over
\* output and content visit them, output_text, the mapping its JSON texts
\* and parsed objects carry, and whether it has a usage object
Reply(parts, output_text, body, usage) ==
    [parts |-> parts, output_text |-> output_text, body |-> body,
     usage |-> usage]

\* what `parsed` of a part gives: model_dump() of a model object, else the
\* object itself
ParsedOf(part, body) ==
    CASE part.parsed = "mapping" -> <<"mapping", body>>
      [] part.parsed = "model" -> <<"mapping", body>>
      [] part.parsed = "list" -> List(<<>>)
      [] OTHER -> PyNone

RECURSIVE PartsFrom(_, _)
\* the loop of _extract_parsed_output from part k on
PartsFrom(r, k) ==
    IF k > Len(r.parts) THEN _safe_json_loads(r.output_text, r.body)
    ELSE IF r.parts[k].parsed # "none" THEN ParsedOf(r.parts[k], r.body)
    ELSE IF r.parts[k].type = "output_text"
            /\ TypeOf(_safe_json_loads(r.parts[k].text, r.body)) # "none"
    THEN _safe_json_loads(r.parts[k].text, r.body)
    ELSE PartsFrom(r, k + 1)

_extract_parsed_output(r) == PartsFrom(r, 1)

RECURSIVE Pieces(_, _)
\* "".join(pieces) of _extract_output_text
Pieces(r, k) ==
    IF k > Len(r.parts) THEN <<>>
    ELSE (IF HasText(r.parts[k].text) THEN ValueOf(r.parts[k].text) ELSE <<>>)
            \o Pieces(r, k + 1)

_extract_output_text(r) ==
    IF HasText(r.output_text) THEN ValueOf(r.output_text) ELSE Pieces(r, 1)

---------------------------------------------------------------------------
(* predict_codes_with_llm after the reply: lines 479-536                   *)

\* the value under "icd_codes" or "cpt_codes" of the parsed mapping
BucketValue(is_list, items) == [is_list |-> is_list, items |-> items]

\* the parsed mapping: a missing bucket reads as [], a missing reasoning as ""
Body(icd_codes, cpt_codes, reasoning) ==
    [icd_codes |-> icd_codes, cpt_codes |-> cpt_codes, reasoning |-> reasoning]

\* lines 515-522: what normalized_entries.append receives
NormalizedEntry(entry, n) ==
    [code |-> Strip(entry.code),
     description |-> Strip(entry.description),
     explanation |-> Strip(entry.explanation),
     evidence_spans |-> SanitizeRun(entry.is_list, entry.evidence_spans, n).cleaned]

RECURSIVE EntriesFrom(_, _, _)
\* lines 506-522: the loop over the entries of one bucket from entry k on
EntriesFrom(items, k, n) ==
    IF k > Len(items) THEN <<>>
    ELSE (IF Kept(items[k]) THEN <<NormalizedEntry(items[k], n)>> ELSE <<>>)
            \o EntriesFrom(items, k + 1, n)

\* lines 504-523: normalized[bucket_name]
NormalizedEntries(value, n) ==
    IF ~value.is_list THEN <<>> ELSE EntriesFrom(value.items, 1, n)

\* lines 496-536: the returned mapping
CodingResult(model, r, n) ==
    [model |-> model,
     reasoning |-> IF TypeOf(r.body.reasoning) = "text"
                   THEN r.body.reasoning ELSE Text(<<>>),
     icd_codes |-> NormalizedEntries(r.body.icd_codes, n),
     cpt_codes |-> NormalizedEntries(r.body.cpt_codes, n),
     usage |-> r.usage,
     raw_response |-> _extract_output_text(r)]

\* what a call of predict_codes_with_llm ends with
Returned(result) == <<"returned", result>>
Raised(error, message) == <<"raised", [error |-> error, message |-> message]>>

\* AfterReply taking a text that is no JSON for an empty mapping
AfterReplyLenient(model, r, n) ==
    LET parsed == _extract_parsed_output(r)
        loaded == json_loads(_extract_output_text(r), r.body)
        value == IF TypeOf(parsed) = "none" THEN loaded.value ELSE parsed
    IN  IF TypeOf(parsed) = "none" /\ loaded.raised
        THEN Returned(CodingResult(model, r, n))
        ELSE IF TypeOf(value) # "mapping"
        THEN Raised("LLMGenerationError", "LLM response had unexpected structure.")
        ELSE Returned(CodingResult(model, r, n))

\* AfterReply taking JSON null for a text that is no JSON
AfterReplyNullInvalid(model, r, n) ==
    LET parsed == _extract_parsed_output(r)
        loaded == json_loads(_extract_output_text(r), r.body)
        value == IF TypeOf(parsed) = "none" THEN loaded.value ELSE parsed
    IN  IF TypeOf(parsed) = "none" /\ (loaded.raised \/ TypeOf(value) = "none")
        THEN Raised("LLMGenerationError", "LLM response was not valid JSON.")
        ELSE IF TypeOf(value) # "mapping"
        THEN Raised("LLMGenerationError", "LLM response had unexpected structure.")
        ELSE Returned(CodingResult(model, r, n))

\* lines 479-536: from the response object to the end of the call
AfterReply(model, r, n) ==
    LET parsed == _extract_parsed_output(r)
        raw_content == _extract_output_text(r)
        loaded == json_loads(raw_content, r.body)
        value == IF TypeOf(parsed) = "none" THEN loaded.value ELSE parsed
    IN  IF TypeOf(parsed) = "none" /\ loaded.raised
        THEN Raised("LLMGenerationError", "LLM response was not valid JSON.")
        ELSE IF TypeOf(value) # "mapping"
        THEN Raised("LLMGenerationError", "LLM response had unexpected structure.")
        ELSE Returned(CodingResult(model, r, n))

---------------------------------------------------------------------------
(* SpecRequest: one call of predict_codes_with_llm, from the caller's      *)
(* arguments to the provider call and to what the caller gets.             *)

\* model_name and icd_version of the call, and what the module reads at
\* import: DEFAULT_LLM_MODEL, DEFAULT_GPT5_REASONING_EFFORT, the schema
\* handed to _invoke_openai, and whether OpenAI() can be constructed
Settings(model_name, default_model, icd_version, response_format, default_effort, client_ok) ==
    [model_name |-> model_name, default_model |-> default_model,
     icd_version |-> icd_version, response_format |-> response_format,
     default_effort |-> default_effort, client_ok |-> client_ok]

\* a schema whose top-level type is not the structured-output marker
MalformedSchema == Dict([EmptyDict EXCEPT !["type"] = Str("json_object")])

RequestNotes == {<<>>, <<" ">>, <<"a">>}

RequestSettings ==
    {Settings(m, d, v, f, e, c) :
        m \in {<<>>, <<" ">>, <<"gpt-4o">>},
        d \in {<<>>, <<"gpt-5">>},
        v \in {"9", "10", "11"},
        f \in {LLM_RESPONSE_SCHEMA, MalformedSchema},
        e \in {"high", "bogus"},
        c \in BOOLEAN}

\* keys a caller may pass that are not recognized options
UnrecognizedOptions ==
    {NoOptions,
     [NoOptions EXCEPT !["extra_body"] = Number(5)],
     [NoOptions EXCEPT !["temperature"] = Number(1)],
     [NoOptions EXCEPT !["text"] = Opts([NoOptions EXCEPT !["format"] = Str("x")]),
                       !["max_completion_tokens"] = Number(50)]}

\* the extras argument: None or a mapping
RequestExtras ==
    {PyNone} \cup
    {Opts([u EXCEPT !["max_output_tokens"] = mo, !["max_tokens"] = mt,
                    !["reasoning_effort"] = re, !["reasoning"] = r]) :
        u \in UnrecognizedOptions,
        mo \in {Absent, PyNone, Number(100)},
        mt \in {Absent, Number(500)},
        re \in {Absent, Str("low")},
        r \in {Absent, Opts([NoOptions EXCEPT !["effort"] = Str("high")])}}

\* replies of the provider: a parsed mapping, a text that is no JSON, a
\* JSON array
EmptyBody == Body(BucketValue(TRUE, <<>>), BucketValue(TRUE, <<>>), Text(<<"x">>))

RequestReplies ==
    {Reply(<<Part("mapping", "output_text", NoText)>>, NoText, EmptyBody, FALSE),
     Reply(<<Part("none", "output_text", Text(<<"x">>))>>, Text(<<"x">>), EmptyBody, FALSE),
     Reply(<<Part("none", "output_text", Text(<<"[]">>))>>, Text(<<"[]">>), EmptyBody, TRUE)}

\* line 449: the model the request is for
ModelOf(settings) ==
    Strip(IF settings.model_name # <<>> THEN settings.model_name
          ELSE settings.default_model)

InitRequest ==
    /\ note \in RequestNotes
    /\ extras \in RequestExtras
    /\ request \in RequestSettings
    /\ pc = "start"
    /\ payload = PyNone
    /\ provider_calls = 0
    /\ reply = PyNone
    /\ outcome = <<"none", "none">>
    /\ GroundIdle
    /\ ClientIdle
    /\ LocateIdle
    /\ EntryIdle
    /\ SchemaIdle

\* the caller's mapping after the call: what _invoke_openai leaves of the
\* nested mappings it shares with payload_options
ExtrasAfter(e, options_after) ==
    IF TypeOf(e) # "opts" THEN e
    ELSE Opts([k \in OptionKeys |->
                  IF _filter_extras(e)[k] # Absent /\ IsDict(ValueOf(e)[k])
                  THEN options_after[k]
                  ELSE ValueOf(e)[k]])

\* BuildStep without the check of icd_version
BuildStepAnyVersion(n, e, settings, model, built) ==
    LET rejected == [pc |-> "done", payload |-> PyNone, calls |-> 0, extras |-> e]
    IN  IF Strip(n) = <<>>
        THEN rejected @@
             [outcome |-> Raised("ValueError", "Clinical note must not be empty.")]
        ELSE IF model = <<>>
        THEN rejected @@
             [outcome |-> Raised("ValueError", "No LLM model configured.")]
        ELSE [pc |-> "calling", payload |-> built.payload, calls |-> 1,
              extras |-> e, outcome |-> <<"none", "none">>]

\* what the call has come to when the request is built
BuildStep(n, e, settings, model, built) ==
    LET rejected == [pc |-> "done", payload |-> PyNone, calls |-> 0, extras |-> e]
    IN  IF Strip(n) = <<>>
        THEN rejected @@
             [outcome |-> Raised("ValueError", "Clinical note must not be empty.")]
        ELSE IF model = <<>>
        THEN rejected @@
             [outcome |-> Raised("ValueError", "No LLM model configured.")]
        ELSE IF settings.icd_version \notin {"9", "10"}
        THEN rejected @@
             [outcome |-> Raised("ValueError", "Invalid ICD version.")]
        ELSE IF ~settings.client_ok
        THEN rejected @@
             [outcome |-> Raised("LLMGenerationError", "str(exc)")]
        ELSE IF built.raised
        THEN [pc |-> "done", payload |-> PyNone, calls |-> 0,
              extras |-> ExtrasAfter(e, built.options),
              outcome |-> Raised("LLMGenerationError",
                                 "Unexpected failure while calling the LLM.")]
        ELSE [pc |-> "calling", payload |-> built.payload, calls |-> 1,
              extras |-> ExtrasAfter(e, built.options),
              outcome |-> <<"none", "none">>]

\* Lines 445-471 and _invoke_openai up to client.responses.create(**payload):
\* the call is rejected, or building the request fails, or the request
\* goes out.
PredictCodes ==
    /\ pc = "start"
    /\ \E model \in {ModelOf(request)} :
       \E built \in {_invoke_openai(model, request.response_format,
                                    PayloadOptions(extras),
                                    request.default_effort)} :
       \E step \in {BuildStep(note, extras, request, model, built)} :
           /\ pc' = step.pc
           /\ payload' = step.payload
           /\ provider_calls' = provider_calls + step.calls
           /\ extras' = step.extras
           /\ outcome' = step.outcome
    /\ UNCHANGED <<request, reply, groundVars, entryVars, schemaVars, clientVars, locateVars>>

\* client.responses.create returns r: lines 479-536.
ProviderReturns(r) ==
    /\ pc = "calling"
    /\ reply' = <<"response", r>>
    /\ outcome' = AfterReply(ModelOf(request), r, note)
    /\ pc' = "done"
    /\ UNCHANGED <<extras, request, payload, provider_calls,
                   groundVars, entryVars, schemaVars, clientVars, locateVars>>

\* ProviderFails with the call repeated after a failure
ProviderFailsRetrying ==
    /\ pc = "calling"
    /\ provider_calls' = provider_calls + 1
    /\ UNCHANGED <<extras, request, pc, payload, reply, outcome,
                   groundVars, entryVars, schemaVars, clientVars, locateVars>>

\* client.responses.create raises an OpenAIError (transport error,
\* timeout): lines 472-474.
ProviderFails ==
    /\ pc = "calling"
    /\ outcome' = Raised("LLMGenerationError", "str(exc)")
    /\ pc' = "done"
    /\ UNCHANGED <<extras, request, payload, provider_calls, reply,
                   groundVars, entryVars, schemaVars, clientVars, locateVars>>

NextRequest ==
    \/ PredictCodes
    \/ \E r \in RequestReplies : ProviderReturns(r)
    \/ ProviderFails

SpecRequest == InitRequest /\ [][NextRequest]_vars

---------------------------------------------------------------------------
(* SpecInvoke: one call of _invoke_openai with an options mapping of the   *)
(* caller's, `extras` being that mapping.                                  *)

InvokeOptions ==
    {Opts([NoOptions EXCEPT !["text"] = tx, !["max_completion_tokens"] = mc,
                            !["reasoning"] = r, !["reasoning_effort"] = re,
                            !["max_tokens"] = mt, !["extra_body"] = eb]) :
        tx \in {Absent, Opts(NoOptions), Str("x"),
                Opts([NoOptions EXCEPT !["format"] = Str("x")])},
        mc \in {Absent, PyNone, Number(50)},
        r \in {Absent, Opts(NoOptions), Opts([NoOptions EXCEPT !["effort"] = Str("high")])},
        re \in {Absent, PyNone, Str(""), Str("low")},
        mt \in {Absent, Number(500)},
        eb \in {Absent, Number(5), Opts([NoOptions EXCEPT !["temperature"] = Number(1)])}}

InvokeSettings ==
    {Settings(m, <<>>, "9", f, e, TRUE) :
        m \in {<<"gpt-4o">>, <<"gpt-5">>, <<"gpt-5", "-mini">>},
        f \in {PyNone, LLM_RESPONSE_SCHEMA, MalformedSchema},
        e \in {"high", "bogus"}}

InitInvoke ==
    /\ extras \in InvokeOptions
    /\ request \in InvokeSettings
    /\ pc = "invoke"
    /\ payload = PyNone
    /\ provider_calls = 0
    /\ reply = PyNone
    /\ outcome = <<"none", "none">>
    /\ note = <<>>
    /\ GroundIdle
    /\ ClientIdle
    /\ LocateIdle
    /\ EntryIdle
    /\ SchemaIdle

\* _invoke_openai up to client.responses.create(**payload)
InvokeOpenai ==
    /\ pc = "invoke"
    /\ \E built \in {_invoke_openai(request.model_name, request.response_format,
                                    ValueOf(extras), request.default_effort)} :
          /\ extras' = Opts(built.options)
          /\ IF built.raised
             THEN /\ pc' = "done"
                  /\ outcome' = Raised(built.error, "")
                  /\ UNCHANGED <<payload, provider_calls>>
             ELSE /\ pc' = "created"
                  /\ payload' = built.payload
                  /\ provider_calls' = provider_calls + 1
                  /\ UNCHANGED outcome
    /\ UNCHANGED <<request, reply, groundVars, entryVars, schemaVars, clientVars, locateVars>>

\* client.responses.create returns r, and _invoke_openai returns it
CreateReturns(r) ==
    /\ pc = "created"
    /\ reply' = <<"response", r>>
    /\ outcome' = Returned(r)
    /\ pc' = "done"
    /\ UNCHANGED <<extras, request, payload, provider_calls,
                   groundVars, entryVars, schemaVars, clientVars, locateVars>>

\* client.responses.create raises
CreateFails ==
    /\ pc = "created"
    /\ outcome' = Raised("OpenAIError", "str(exc)")
    /\ pc' = "done"
    /\ UNCHANGED <<extras, request, payload, provider_calls, reply,
                   groundVars, entryVars, schemaVars, clientVars, locateVars>>

NextInvoke ==
    \/ InvokeOpenai
    \/ \E r \in RequestReplies : CreateReturns(r)
    \/ CreateFails

SpecInvoke == InitInvoke /\ [][NextInvoke]_vars

---------------------------------------------------------------------------
(* SpecReply: predict_codes_with_llm over the replies a provider can give  *)
(* to a well-formed request.                                               *)

\* the texts of parts and of output_text
ReplyTexts ==
    {NoText} \cup
    {Text(t) : t \in {<<>>, <<"x">>, <<"{">>, <<"}">>, <<"{", "}">>,
                      <<"[]">>, <<"null">>}}

ReplyParts ==
    {Part(parsed, "output_text", NoText) : parsed \in {"mapping", "model", "list"}}
      \cup {Part("none", type, text) :
              type \in {"output_text", "refusal"}, text \in ReplyTexts}

Replies ==
    {Reply(parts, output_text, EmptyBody, usage) :
        parts \in ListsUpTo(ReplyParts, MaxParts),
        output_text \in ReplyTexts,
        usage \in BOOLEAN}

InitReply ==
    /\ note = <<"a">>
    /\ extras = PyNone
    /\ request \in {Settings(<<"gpt-4o">>, <<"gpt-5">>, v, LLM_RESPONSE_SCHEMA,
                             "high", TRUE) : v \in {"9", "10"}}
    /\ pc = "start"
    /\ payload = PyNone
    /\ provider_calls = 0
    /\ reply = PyNone
    /\ outcome = <<"none", "none">>
    /\ GroundIdle
    /\ ClientIdle
    /\ LocateIdle
    /\ EntryIdle
    /\ SchemaIdle

NextReply ==
    \/ PredictCodes
    \/ \E r \in Replies : ProviderReturns(r)

SpecReply == InitReply /\ [][NextReply]_vars

---------------------------------------------------------------------------
(* SpecBuckets: predict_codes_with_llm over replies whose mapping holds    *)
(* well-formed and malformed code entries.                                 *)

BucketEntries ==
    {Entry(TRUE, TRUE, TRUE, TRUE, TRUE, <<Claim(<<"a">>)>>),
     Entry(TRUE, TRUE, TRUE, TRUE, TRUE, <<Claim(<<"b">>)>>),
     Entry(TRUE, TRUE, TRUE, TRUE, FALSE, <<>>),
     Entry(FALSE, FALSE, FALSE, FALSE, FALSE, <<>>),
     Entry(TRUE, FALSE, TRUE, TRUE, TRUE, <<Claim(<<"a">>)>>),
     Entry(TRUE, TRUE, FALSE, TRUE, TRUE, <<Claim(<<"a">>)>>),
     Entry(TRUE, TRUE, TRUE, FALSE, TRUE, <<Claim(<<"a">>)>>)}

\* parsed["icd_codes"]
IcdBuckets ==
    {BucketValue(FALSE, <<>>)} \cup
    {BucketValue(TRUE, items) : items \in ListsUpTo(BucketEntries, MaxBucketLen)}

\* parsed["cpt_codes"]
CptBuckets ==
    {BucketValue(FALSE, <<>>),
     BucketValue(TRUE, <<>>),
     BucketValue(TRUE, <<Entry(TRUE, TRUE, TRUE, TRUE, TRUE, <<Claim(<<"a">>)>>)>>),
     BucketValue(TRUE, <<Entry(TRUE, TRUE, TRUE, FALSE, TRUE, <<>>),
                         Entry(TRUE, TRUE, TRUE, TRUE, TRUE, <<Claim(<<"b">>)>>)>>)}

\* parsed["reasoning"]: a string, a string inside whitespace, no string
BucketReasonings == {Text(<<"x">>), Text(<<" ", "x", " ">>), NoText}

BucketReplies ==
    {Reply(<<Part("mapping", "output_text", NoText)>>, NoText,
           Body(icd, cpt, reasoning), FALSE) :
        icd \in IcdBuckets, cpt \in CptBuckets, reasoning \in BucketReasonings}

InitBuckets ==
    /\ note \in {<<"a">>, <<"a", "b">>}
    /\ extras = PyNone
    /\ request = Settings(<<"gpt-4o">>, <<"gpt-5">>, "10", LLM_RESPONSE_SCHEMA,
                          "high", TRUE)
    /\ pc = "start"
    /\ payload = PyNone
    /\ provider_calls = 0
    /\ reply = PyNone
    /\ outcome = <<"none", "none">>
    /\ GroundIdle
    /\ ClientIdle
    /\ LocateIdle
    /\ EntryIdle
    /\ SchemaIdle

NextBuckets ==
    \/ PredictCodes
    \/ \E r \in BucketReplies : ProviderReturns(r)

SpecBuckets == InitBuckets /\ [][NextBuckets]_vars

---------------------------------------------------------------------------
(* SpecClient: _get_openai_client called from the worker threads that      *)
(* serve /predict-explain-llm.  A thread can be suspended between any two  *)
(* of its steps.  Client instances are numbered in the order OpenAI()      *)
(* returned them; 0 stands for None.                                       *)

Threads == 1..NumThreads

\* a thread: where it stands in _get_openai_client, the instance its
\* OpenAI() call returned, the clients its requests got, its finished requests
Thread(at, made, got, served) ==
    [at |-> at, made |-> made, got |-> got, served |-> served]

InitClient ==
    /\ _OPENAI_CLIENT = 0
    /\ constructed = 0
    /\ threads = [t \in Threads |-> Thread("idle", 0, {}, 0)]
    /\ LocateIdle
    /\ note = <<>>
    /\ GroundIdle
    /\ EntryIdle
    /\ SchemaIdle
    /\ RequestIdle

\* line 222: if _OPENAI_CLIENT is None
TestClient(t) ==
    /\ threads[t].at = "idle"
    /\ threads[t].served < MaxServed
    /\ threads' = [threads EXCEPT ![t].at =
                      IF _OPENAI_CLIENT = 0 THEN "construct" ELSE "return"]
    /\ UNCHANGED <<_OPENAI_CLIENT, constructed>>
    /\ UNCHANGED <<groundVars, entryVars, schemaVars, requestVars, locateVars>>

\* line 223, right-hand side: OpenAI() returns a new instance
ConstructClient(t) ==
    /\ threads[t].at = "construct"
    /\ constructed' = constructed + 1
    /\ threads' = [threads EXCEPT ![t].at = "store", ![t].made = constructed + 1]
    /\ UNCHANGED _OPENAI_CLIENT
    /\ UNCHANGED <<groundVars, entryVars, schemaVars, requestVars, locateVars>>

\* line 223, right-hand side: OpenAI() raises, the request ends without a client
ConstructFails(t) ==
    /\ threads[t].at = "construct"
    /\ threads' = [threads EXCEPT ![t].at = "idle", ![t].served = @ + 1]
    /\ UNCHANGED <<_OPENAI_CLIENT, constructed>>
    /\ UNCHANGED <<groundVars, entryVars, schemaVars, requestVars, locateVars>>

\* line 223, assignment to the global
StoreClient(t) ==
    /\ threads[t].at = "store"
    /\ _OPENAI_CLIENT' = threads[t].made
    /\ threads' = [threads EXCEPT ![t].at = "return"]
    /\ UNCHANGED constructed
    /\ UNCHANGED <<groundVars, entryVars, schemaVars, requestVars, locateVars>>

\* line 224: return _OPENAI_CLIENT, and the request runs with it
ReturnClient(t) ==
    /\ threads[t].at = "return"
    /\ threads' = [threads EXCEPT ![t].at = "idle",
                                  ![t].got = @ \cup {_OPENAI_CLIENT},
                                  ![t].served = @ + 1]
    /\ UNCHANGED <<_OPENAI_CLIENT, constructed>>
    /\ UNCHANGED <<groundVars, entryVars, schemaVars, requestVars, locateVars>>

NextClient ==
    \E t \in Threads :
        \/ TestClient(t)
        \/ ConstructClient(t)
        \/ ConstructFails(t)
        \/ StoreClient(t)
        \/ ReturnClient(t)

SpecClient == InitClient /\ [][NextClient]_vars

---------------------------------------------------------------------------
(* SpecLocate: one call of _locate_span, one iteration of its while loop   *)
(* per step.                                                               *)

\* the note holds letters in both cases and the letter whose lower case is
\* two characters long; the snippet holds letters and whitespace
LocateAlphabet == {"a", "A", "Idot"}

\* used_ranges as handed in: any list of ranges of offsets of the note or
\* of its lower-case form
LocateRanges(n) ==
    {<<i, j>> : i \in 0..Len(Lower(n)), j \in 1..Len(Lower(n))} \ {<<i, i>> : i \in 0..Len(Lower(n))}

\* where a call stands before it has returned
Called == <<"called">>
Scanning == <<"scanning">>

InitLocate ==
    /\ note \in StringsUpTo(LocateAlphabet, MaxLocateNoteLen)
    /\ snippet_ \in StringsUpTo({"a", "A", " "}, MaxLocateSnippetLen)
    /\ used_ranges \in ListsUpTo(LocateRanges(note), MaxLocateUsed)
    /\ search_start_ = 0
    /\ iterations = 0
    /\ located = Called
    /\ spans = <<>>
    /\ cleaned = <<>>
    /\ EntryIdle
    /\ SchemaIdle
    /\ RequestIdle
    /\ _OPENAI_CLIENT = 0
    /\ constructed = 0
    /\ threads = <<>>

\* lines 342-349: strip the snippet_, return None for an empty one
StartScan ==
    /\ located = Called
    /\ snippet_' = Strip(snippet_)
    /\ search_start_' = 0
    /\ located' = IF Strip(snippet_) = <<>> THEN None ELSE Scanning
    /\ UNCHANGED iterations
    /\ UNCHANGED <<groundVars, entryVars, schemaVars, requestVars, clientVars>>

\* mutant: after an overlap the scan goes on from the same offset
ScanStepStuck ==
    /\ located = Scanning
    /\ search_start_ <= Len(note)
    /\ iterations <= Len(note) + 2
    /\ iterations' = iterations + 1
    /\ \E exact \in {Find(note, snippet_, search_start_)} :
       \E idx \in {IF exact = -1
                   THEN Find(Lower(note), Lower(snippet_), search_start_)
                   ELSE exact} :
          IF idx = -1
          THEN located' = None /\ UNCHANGED search_start_
          ELSE IF Overlaps(idx, idx + Len(snippet_), used_ranges)
          THEN search_start_' = idx /\ UNCHANGED located
          ELSE located' = <<idx, idx + Len(snippet_)>> /\ UNCHANGED search_start_
    /\ UNCHANGED snippet_
    /\ UNCHANGED <<groundVars, entryVars, schemaVars, requestVars, clientVars>>

\* lines 351-363: one run of the body of the while loop
ScanStep ==
    /\ located = Scanning
    /\ search_start_ <= Len(note)
    /\ iterations' = iterations + 1
    /\ \E exact \in {Find(note, snippet_, search_start_)} :
       \E idx \in {IF exact = -1
                   THEN Find(Lower(note), Lower(snippet_), search_start_)
                   ELSE exact} :
          IF idx = -1
          THEN located' = None /\ UNCHANGED search_start_
          ELSE IF Overlaps(idx, idx + Len(snippet_), used_ranges)
          THEN search_start_' = idx + 1 /\ UNCHANGED located
          ELSE located' = <<idx, idx + Len(snippet_)>> /\ UNCHANGED search_start_
    /\ UNCHANGED snippet_
    /\ UNCHANGED <<groundVars, entryVars, schemaVars, requestVars, clientVars>>

\* lines 351 and 364: the loop condition fails, return None
ScanEnds ==
    /\ located = Scanning
    /\ search_start_ > Len(note)
    /\ located' = None
    /\ UNCHANGED <<snippet_, search_start_, iterations>>
    /\ UNCHANGED <<groundVars, entryVars, schemaVars, requestVars, clientVars>>

NextLocate ==
    \/ StartScan
    \/ ScanStep
    \/ ScanEnds

SpecLocate == InitLocate /\ [][NextLocate]_vars

\* the interpreter goes on running a call that has not returned
SpecLocateLive == SpecLocate /\ WF_vars(NextLocate)

---------------------------------------------------------------------------
(* SpecFolded: _sanitize_spans over notes that hold a letter whose lower   *)
(* case is longer than the letter.                                         *)

InitFolded ==
    /\ note \in StringsUpTo(LocateAlphabet, MaxFoldedNoteLen)
    /\ spans = <<>>
    /\ cleaned = <<>>
    /\ used_ranges = FreshUsedRanges
    /\ EntryIdle
    /\ SchemaIdle
    /\ RequestIdle
    /\ ClientIdle
    /\ LocateIdle

NextFolded ==
    \E t \in StringsUpTo(LocateAlphabet, MaxFoldedClaimLen) : SanitizeSpan(Claim(t))

SpecFolded == InitFolded /\ [][NextFolded]_vars

---------------------------------------------------------------------------
(* Vocabulary of the properties. *)

\* s occurs in n at offset i, exactly
OccursAt(n, s, i) ==
    /\ 0 <= i
    /\ i + Len(s) <= Len(n)
    /\ Slice(n, i, i + Len(s)) = s

\* s occurs in n at offset i, ignoring case
OccursAtIgnoringCase(n, s, i) ==
    /\ 0 <= i
    /\ i + Len(s) <= Len(n)
    /\ Lower(Slice(n, i, i + Len(s))) = Lower(s)

Offsets(n) == 0..Len(n)

\* the half-open ranges [a1, a2) and [b1, b2) share no offset
Disjoint(a1, a2, b1, b2) == a2 <= b1 \/ b2 <= a1

\* [i, j) overlaps no range of used
FreeOf(used, i, j) ==
    \A k \in 1..Len(used) : Disjoint(i, j, used[k][1], used[k][2])

\* offsets of the exact / case-insensitive occurrences of s that overlap no
\* range of used
FreeExact(n, s, used) ==
    {i \in Offsets(n) : OccursAt(n, s, i) /\ FreeOf(used, i, i + Len(s))}

FreeIgnoringCase(n, s, used) ==
    {i \in Offsets(n) : OccursAtIgnoringCase(n, s, i) /\ FreeOf(used, i, i + Len(s))}

IsGrounded(sp) == sp.start >= 0

GroundedIndexes == {k \in 1..Len(cleaned) : IsGrounded(cleaned[k])}

\* the consumed element k is a mapping with a string text
IsClaim(item) == item.is_dict /\ item.text_is_str

\* items without its k-th element
RemoveAt(items, k) == SubSeq(items, 1, k - 1) \o SubSeq(items, k + 1, Len(items))

---------------------------------------------------------------------------
(* C1 *)

\* C1: every emitted span with start >= 0 has note[start:end] == text,
\* exactly, whichever stage produced the match.
C1_TextIsTheMatchedSubstring ==
    \A k \in GroundedIndexes :
        Slice(note, cleaned[k].start, cleaned[k].end) = cleaned[k].text

---------------------------------------------------------------------------
(* C2 *)

\* C2: within one entry no two emitted spans with start >= 0 overlap.
C2_GroundedSpansDisjoint ==
    \A i \in GroundedIndexes : \A j \in GroundedIndexes :
        i # j => Disjoint(cleaned[i].start, cleaned[i].end,
                          cleaned[j].start, cleaned[j].end)

\* two grounded spans, the second of which had to pass over an occurrence
\* the first one holds
C2_Witness ==
    /\ Len(cleaned) = 2
    /\ IsGrounded(cleaned[1])
    /\ IsGrounded(cleaned[2])
    /\ \E i \in Offsets(note) :
          /\ i < cleaned[2].start
          /\ OccursAt(note, cleaned[2].text, i)
          /\ ~Disjoint(i, i + Len(cleaned[2].text),
                       cleaned[1].start, cleaned[1].end)

---------------------------------------------------------------------------
(* C3 *)

\* C3: when no exact occurrence of the trimmed claim is free of used_ranges,
\* _locate_span returns the leftmost case-insensitive occurrence that
\* overlaps no used range, wherever it lies in the note, and reports no
\* match only when there is none.
C3_CaseInsensitiveRescanFromZero ==
    \A t \in Claims :
        LET s == Strip(t)
            ci == FreeIgnoringCase(note, s, used_ranges)
        IN  (s # <<>> /\ FreeExact(note, s, used_ranges) = {}) =>
                _locate_span(note, t, used_ranges) =
                    IF ci = {} THEN None
                    ELSE <<SetMin(ci), SetMin(ci) + Len(s)>>

---------------------------------------------------------------------------
(* C4 *)

\* no candidate form of the claim text has an occurrence in n, in any case,
\* that avoids the ranges of used
NoUsableOccurrence(n, text, used) ==
    LET forms == _span_candidates(text)
    IN  \A c \in 1..Len(forms) : FreeIgnoringCase(n, forms[c], used) = {}

\* cleaned and used_ranges as the loop leaves them after the first k
\* consumed elements
AfterPrefix(k) == SanitizeRun(TRUE, SubSeq(spans, 1, k), note)

\* the consumed element k is a claim that nothing in the note can ground
Unresolvable(k) ==
    /\ ~Skipped(spans[k])
    /\ NoUsableOccurrence(note, spans[k].text, AfterPrefix(k - 1).used)

\* C4: a claim none of whose candidate forms has an occurrence avoiding the
\* used ranges is emitted with start == end == -1 and the trimmed original
\* text, leaves used_ranges as it was, and the spans of the other claims are
\* those of the list without it.
C4_UnresolvableClaimIsInert ==
    \A k \in 1..Len(spans) :
        Unresolvable(k) =>
            LET at == Len(AfterPrefix(k - 1).cleaned) + 1
                without == SanitizeRun(TRUE, RemoveAt(spans, k), note)
            IN  /\ cleaned[at].start = -1
                /\ cleaned[at].end = -1
                /\ cleaned[at].text = Strip(spans[k].text)
                /\ AfterPrefix(k).used = AfterPrefix(k - 1).used
                /\ RemoveAt(cleaned, at) = without.cleaned
                /\ used_ranges = without.used

\* an unresolvable first claim followed by a claim that is grounded
C4_Witness ==
    /\ Len(spans) = 2
    /\ Unresolvable(1)
    /\ Len(cleaned) = 2
    /\ cleaned[1].start = -1
    /\ cleaned[1].text # spans[1].text
    /\ IsGrounded(cleaned[2])

---------------------------------------------------------------------------
(* C5 *)

ExactOccurrences(n, s) == {i \in Offsets(n) : OccursAt(n, s, i)}

\* n holds s at two positions that do not overlap
TwiceDisjoint(n, s) ==
    \E p \in ExactOccurrences(n, s) : \E q \in ExactOccurrences(n, s) :
        p + Len(s) <= q

\* the entry consists of two claims with the same text
SameClaimTwice ==
    /\ Len(spans) = 2
    /\ IsClaim(spans[1])
    /\ IsClaim(spans[2])
    /\ spans[1].text = spans[2].text
    /\ spans[1].text # <<>>

\* both claims grounded to different occurrences of s: the first to the
\* leftmost, the second to the next one that does not overlap it
BothGroundedInOrder(s) ==
    /\ Len(cleaned) = 2
    /\ \A k \in 1..2 :
          /\ IsGrounded(cleaned[k])
          /\ Slice(note, cleaned[k].start, cleaned[k].end) = s
    /\ Disjoint(cleaned[1].start, cleaned[1].end, cleaned[2].start, cleaned[2].end)
    /\ cleaned[1].start = SetMin(ExactOccurrences(note, s))
    /\ cleaned[2].start =
          SetMin({q \in ExactOccurrences(note, s) : cleaned[1].end <= q})

\* C5 as stated: for a note containing S at two non-overlapping positions and
\* two claims both equal to S, both claims are grounded to different
\* occurrences of S, the first claim to the leftmost and the second to the
\* next.
C5_DuplicateClaimsAsStated ==
    (SameClaimTwice /\ TwiceDisjoint(note, spans[1].text)) =>
        BothGroundedInOrder(spans[1].text)

\* C5 amended: the same for an S that neither starts nor ends with whitespace.
C5_DuplicateClaims ==
    (/\ SameClaimTwice
     /\ Strip(spans[1].text) = spans[1].text
     /\ TwiceDisjoint(note, spans[1].text)) =>
        BothGroundedInOrder(spans[1].text)

\* two equal claims, the note holding the text twice and a third time in
\* between in another case or overlapping
C5_Witness ==
    /\ SameClaimTwice
    /\ Strip(spans[1].text) = spans[1].text
    /\ TwiceDisjoint(note, spans[1].text)
    /\ Len(cleaned) = 2
    /\ cleaned[2].start > cleaned[1].end

---------------------------------------------------------------------------
(* C7 *)

\* the emitted spans, handed back as claims
AsClaims(out) ==
    [k \in 1..Len(out) |-> SpanItem(TRUE, TRUE, out[k].text, TRUE, out[k].explanation)]

\* C7: grounding the emitted spans again against the same note yields the
\* same spans.
C7_GroundingIdempotent ==
    _sanitize_spans(TRUE, AsClaims(cleaned), note) = cleaned

---------------------------------------------------------------------------
(* C6 *)

KeptIndexes == {k \in 1..Len(entries) : Kept(entries[k].entry)}

\* the spans emitted for the kept entry k
SpansOf(k) ==
    LET b == entries[k].bucket
        at == Cardinality({i \in KeptIndexes : i <= k /\ entries[i].bucket = b})
    IN  normalized[b][at].evidence_spans

\* the claims of entry k that are not skipped
ClaimsOf(k) ==
    IF entries[k].entry.is_list
    THEN SelectSeq(entries[k].entry.evidence_spans, LAMBDA item : ~Skipped(item))
    ELSE <<>>

\* entry k cites, as its first claim, a text that occurs once in the note
CitesUnique(k, s) ==
    /\ ClaimsOf(k) # <<>>
    /\ ClaimsOf(k)[1].text = s
    /\ Strip(s) = s
    /\ Cardinality(ExactOccurrences(note, s)) = 1

\* C6: used_ranges is reset for every code entry: entries with the same
\* claims get the same spans whatever entries came before, and every entry
\* citing a substring that occurs once in the note is grounded to that one
\* range, in either bucket and however many entries cited it before.
C6_EntriesGroundedIndependently ==
    /\ \A i \in KeptIndexes : \A j \in KeptIndexes :
          ClaimsOf(i) = ClaimsOf(j) => SpansOf(i) = SpansOf(j)
    /\ \A k \in KeptIndexes : \A s \in {ClaimsOf(k)[i].text : i \in 1..Len(ClaimsOf(k))} :
          CitesUnique(k, s) =>
              LET at == SetMin(ExactOccurrences(note, s))
              IN  /\ SpansOf(k)[1].start = at
                  /\ SpansOf(k)[1].end = at + Len(s)

\* two entries of different buckets cite the same unique substring
C6_Witness ==
    /\ Len(entries) = 2
    /\ KeptIndexes = {1, 2}
    /\ entries[1].bucket # entries[2].bucket
    /\ \E s \in StringsUpTo(Alphabet, MaxEntryClaimLen) :
          /\ CitesUnique(1, s)
          /\ CitesUnique(2, s)
          /\ IsGrounded(SpansOf(1)[1])
          /\ SpansOf(1)[1].start = SpansOf(2)[1].start

---------------------------------------------------------------------------
(* C8 and C9 *)

AllIn(s, chars) == \A i \in 1..Len(s) : s[i] \in chars

\* the non-empty substrings of n
Phrases(n) ==
    {Slice(n, i, j) : i \in Offsets(n), j \in Offsets(n)} \ {<<>>}

\* a phrase: text that neither starts nor ends with whitespace or a
\* quotation character
IsPhrase(p) ==
    /\ p # <<>>
    /\ p[1] \notin Whitespace \cup QUOTE_CHARS
    /\ p[Len(p)] \notin Whitespace \cup QUOTE_CHARS

\* t is: l quotation characters, p, m punctuation characters, r quotation
\* characters
Decorated(t, p, l, m, r) ==
    /\ l >= 0 /\ m >= 0 /\ r >= 0
    /\ Len(t) = l + Len(p) + m + r
    /\ AllIn(SubSeq(t, 1, l), QUOTE_CHARS)
    /\ SubSeq(t, l + 1, l + Len(p)) = p
    /\ AllIn(SubSeq(t, l + Len(p) + 1, l + Len(p) + m), TRAILING_PUNCTUATION)
    /\ AllIn(SubSeq(t, l + Len(p) + m + 1, Len(t)), QUOTE_CHARS)

\* the text of the only claim of the entry, if there is one
OnlyClaimText ==
    IF Len(spans) = 1 /\ IsClaim(spans[1]) THEN {spans[1].text} ELSE {}

\* no occurrence of p in n stands between two quotation characters
BareIn(n, p) ==
    \A i \in ExactOccurrences(n, p) :
        ~(/\ i >= 1
          /\ i + Len(p) < Len(n)
          /\ n[i] \in QUOTE_CHARS
          /\ n[i + Len(p) + 1] \in QUOTE_CHARS)

\* the only claim was grounded to the leftmost occurrence of p, with text p
GroundedTo(p) ==
    /\ Len(cleaned) = 1
    /\ cleaned[1].text = p
    /\ cleaned[1].start = SetMin(ExactOccurrences(note, p))
    /\ cleaned[1].end = cleaned[1].start + Len(p)

\* t is the phrase p wrapped in quotation characters, and p is in the note,
\* bare
QuotedClaimOfBarePhrase(t, p) ==
    /\ IsPhrase(p)
    /\ \E l \in 1..Len(t) : Decorated(t, p, l, 0, Len(t) - Len(p) - l)
    /\ t[Len(t)] \in QUOTE_CHARS
    /\ ExactOccurrences(note, p) # {}
    /\ BareIn(note, p)

\* C8 as stated: the note contains the phrase P bare and the claim is P
\* wrapped in quotation characters: the claim is grounded with text P at the
\* offsets of P.
C8_QuotedClaimAsStated ==
    \A t \in OnlyClaimText : \A p \in Phrases(note) :
        QuotedClaimOfBarePhrase(t, p) => GroundedTo(p)

\* C8 amended: the same when, in addition, the quoted claim does not occur
\* in the note in any case.
C8_QuotedClaim ==
    \A t \in OnlyClaimText : \A p \in Phrases(note) :
        (/\ QuotedClaimOfBarePhrase(t, p)
         /\ FreeIgnoringCase(note, t, <<>>) = {}) =>
            GroundedTo(p)

\* a quoted claim of a phrase of two characters that stands inside the note
C8_Witness ==
    \E t \in OnlyClaimText : \E p \in Phrases(note) :
        /\ QuotedClaimOfBarePhrase(t, p)
        /\ FreeIgnoringCase(note, t, <<>>) = {}
        /\ Len(p) = 2
        /\ GroundedTo(p)
        /\ cleaned[1].start > 0

\* t is the phrase p followed by m >= 1 punctuation characters, inside l and
\* r quotation characters; p is in the note
PunctuatedClaimOfPhrase(t, p, l, m) ==
    /\ IsPhrase(p)
    /\ p[Len(p)] \notin TRAILING_PUNCTUATION
    /\ m >= 1
    /\ Decorated(t, p, l, m, Len(t) - Len(p) - l - m)
    /\ ExactOccurrences(note, p) # {}

\* p with the m punctuation characters that follow it in t
PunctuatedForm(t, p, l, m) == SubSeq(t, l + 1, l + Len(p) + m)

\* C9 as stated: the claim is the phrase P followed by trailing punctuation,
\* optionally wrapped in quotes, and the punctuated form is not in the note:
\* the claim is grounded to the occurrence of P with text P.
C9_PunctuatedClaimAsStated ==
    \A t \in OnlyClaimText : \A p \in Phrases(note) :
        \A l \in 0..Len(t) : \A m \in 1..Len(t) :
            (/\ PunctuatedClaimOfPhrase(t, p, l, m)
             /\ ExactOccurrences(note, PunctuatedForm(t, p, l, m)) = {}) =>
                GroundedTo(p)

\* C9 amended: the same when the punctuated form does not occur in the note
\* in any case.
C9_PunctuatedClaim ==
    \A t \in OnlyClaimText : \A p \in Phrases(note) :
        \A l \in 0..Len(t) : \A m \in 1..Len(t) :
            (/\ PunctuatedClaimOfPhrase(t, p, l, m)
             /\ FreeIgnoringCase(note, PunctuatedForm(t, p, l, m), <<>>) = {}) =>
                GroundedTo(p)

\* a punctuated claim wrapped in quotes on both sides
C9_Witness ==
    \E t \in OnlyClaimText : \E p \in Phrases(note) :
        \E l \in 1..Len(t) : \E m \in 1..Len(t) :
            /\ PunctuatedClaimOfPhrase(t, p, l, m)
            /\ FreeIgnoringCase(note, PunctuatedForm(t, p, l, m), <<>>) = {}
            /\ t[Len(t)] \in QUOTE_CHARS
            /\ GroundedTo(p)
            /\ cleaned[1].start > 0

---------------------------------------------------------------------------
(* C10 *)

\* C10: applying _normalize_response_format to the result of a previous
\* normalisation returns that result again.
C10_NormalizationIdempotent ==
    (calls >= 1 /\ TypeOf(resp_fmt) # "raised") =>
        /\ ~_normalize_response_format(resp_fmt).raised
        /\ _normalize_response_format(resp_fmt).value = resp_fmt

---------------------------------------------------------------------------
(* C11 *)

\* the schema body a response format carries: nested under "schema" or
\* flattened beside "name"
GivenBody(fmt) ==
    LET js == ValueOf(OrEmptyDict(Get(ValueOf(fmt), "json_schema")))
    IN  IF js["schema"] # Absent
        THEN ValueOf(OrEmptyDict(Get(js, "schema")))
        ELSE [js EXCEPT !["name"] = Absent]

LooksLikeObject(body) ==
    \/ body["type"] = Str("object")
    \/ body["properties"] # Absent
    \/ body["required"] # Absent

\* a call that accepted a response format given as a mapping
Accepted ==
    /\ calls = 0
    /\ calls' = 1
    /\ TypeOf(resp_fmt) = "dict"
    /\ TypeOf(resp_fmt') # "raised"

\* C11: an accepted input whose body looks like an object schema is
\* normalised to type "object", a properties mapping, additionalProperties
\* false whatever the input carried, and required = the declared property
\* names when the input had none (an input required list is kept).
C11_ObjectSchemaForced ==
    [][(Accepted /\ LooksLikeObject(GivenBody(resp_fmt))) =>
          LET given == GivenBody(resp_fmt)
              out == ValueOf(ValueOf(resp_fmt')["schema"])
          IN  /\ out["type"] = Str("object")
              /\ IsDict(out["properties"])
              /\ out["additionalProperties"] = Bool(FALSE)
              /\ IF given["required"] = Absent
                 THEN out["required"] = List(ValueOf(out["properties"]))
                 ELSE out["required"] = given["required"]]_vars

---------------------------------------------------------------------------
(* C12 *)

\* the request went out with the payload built from the caller's mapping
SentWithExtras == pc = "calling" /\ TypeOf(extras) = "opts"

\* C12: a request built from caller options with max_tokens = v and no
\* max_output_tokens has max_output_tokens = v and no max_tokens key; with
\* both supplied, max_output_tokens keeps the caller's value.
C12_MaxTokensFolded ==
    (SentWithExtras /\ ValueOf(extras)["max_tokens"] # Absent) =>
        /\ ValueOf(payload)["max_tokens"] = Absent
        /\ ValueOf(payload)["max_output_tokens"] =
              IF ValueOf(extras)["max_output_tokens"] = Absent
              THEN ValueOf(extras)["max_tokens"]
              ELSE ValueOf(extras)["max_output_tokens"]

---------------------------------------------------------------------------
(* C13 *)

RecognizedOptions == {"max_output_tokens", "reasoning_effort", "reasoning"}

\* the caller's mapping without the keys that are no recognized options
Recognized(e) ==
    Opts([k \in OptionKeys |->
            IF k \in RecognizedOptions THEN ValueOf(e)[k] ELSE Absent])

HasUnrecognized(e) ==
    \E k \in OptionKeys \ RecognizedOptions : ValueOf(e)[k] # Absent

\* what the call would have come to with the mapping e
BuildWith(e) ==
    BuildStep(note, e, request, ModelOf(request),
              _invoke_openai(ModelOf(request), request.response_format,
                             PayloadOptions(e), request.default_effort))

\* C13: keys that are no recognized options never reach the payload, and
\* the request fares as it would without them: it goes out if and only if
\* it would go out without them, with the same payload, and is rejected
\* with the same error otherwise.
C13_UnrecognizedOptionsDropped ==
    (pc # "start" /\ TypeOf(extras) = "opts" /\ HasUnrecognized(extras)) =>
        /\ provider_calls = BuildWith(Recognized(extras)).calls
        /\ payload = BuildWith(Recognized(extras)).payload
        /\ provider_calls = 0 => outcome = BuildWith(Recognized(extras)).outcome
        /\ provider_calls = 1 =>
              \A k \in OptionKeys \ RecognizedOptions :
                  ValueOf(extras)[k] # Absent =>
                      ValueOf(payload)[k] # ValueOf(extras)[k]

\* a request went out although the caller passed extra_body = 5
C13_Witness ==
    /\ pc = "calling"
    /\ TypeOf(extras) = "opts"
    /\ ValueOf(extras)["extra_body"] = Number(5)
    /\ ValueOf(payload)["extra_body"] = Absent

---------------------------------------------------------------------------
(* C14 *)

\* C14: _prepare_responses_kwargs and _invoke_openai leave the options
\* mapping passed in, and every mapping nested in it, with the keys and
\* values it had before the call.
C14_OptionsNotMutated ==
    [][pc = "invoke" => extras' = extras]_vars

---------------------------------------------------------------------------
(* C15 *)

RaisedWith(error) == TypeOf(outcome) = "raised" /\ ValueOf(outcome).error = error

\* the arguments predict_codes_with_llm rejects
Misuse ==
    \/ Strip(note) = <<>>
    \/ ModelOf(request) = <<>>
    \/ request.icd_version \notin {"9", "10"}

\* C15: an empty or whitespace-only note, an unconfigured model and an
\* icd_version outside {"9", "10"} end the call with ValueError, and a call
\* that ends with ValueError has made no provider call.
C15_MisuseRejectedBeforeCall ==
    /\ (pc # "start" /\ Misuse) => (pc = "done" /\ RaisedWith("ValueError"))
    /\ RaisedWith("ValueError") =>
          (Misuse /\ provider_calls = 0 /\ payload = PyNone /\ TypeOf(reply) = "none")

\* a call with a note and a model but icd_version "11" was rejected
C15_Witness ==
    /\ pc = "done"
    /\ RaisedWith("ValueError")
    /\ Strip(note) # <<>>
    /\ ModelOf(request) # <<>>
    /\ request.client_ok
    /\ request.response_format = LLM_RESPONSE_SCHEMA
    /\ provider_calls = 0

---------------------------------------------------------------------------
(* C16 *)

\* the provider call was made and failed: the call is over without a reply
CallFailed == pc = "done" /\ provider_calls >= 1 /\ TypeOf(reply) = "none"

\* C16: a request makes at most one provider call, and when that call
\* fails the request ends with LLMGenerationError and no result.
C16_OneCallNoRetry ==
    /\ provider_calls \in {0, 1}
    /\ CallFailed =>
          (RaisedWith("LLMGenerationError") /\ TypeOf(outcome) # "returned")

\* the one provider call of a request failed
C16_Witness ==
    /\ CallFailed
    /\ provider_calls = 1
    /\ RaisedWith("LLMGenerationError")

---------------------------------------------------------------------------
(* C17 *)

\* the call got as far as attaching the schema, and the schema is one
\* _normalize_response_format rejects
SchemaRejected ==
    /\ pc = "done"
    /\ ~Misuse
    /\ request.client_ok
    /\ _normalize_response_format(request.response_format).raised

\* C17: a malformed schema ends predict_codes_with_llm with the error
\* _normalize_response_format raised, not with LLMGenerationError.
C17_SchemaErrorPropagates ==
    SchemaRejected =>
        /\ RaisedWith(_normalize_response_format(request.response_format).error)
        /\ ~RaisedWith("LLMGenerationError")

---------------------------------------------------------------------------
(* C18 and C19 *)

\* the text x decodes as JSON
Decodes(x, body) == HasText(x) /\ ~json_loads(ValueOf(x), body).raised

\* the text x, if there is one, is JSON for something that is no mapping
NoMappingIn(x, body) ==
    HasText(x) =>
        (Decodes(x, body) /\ TypeOf(json_loads(ValueOf(x), body).value) # "mapping")

Replied == pc = "done" /\ TypeOf(reply) = "response"

\* no part carries a parsed object, no part's text is JSON, and neither
\* output_text nor the text aggregated from the parts is
NothingDecodes(r) ==
    /\ \A k \in 1..Len(r.parts) :
          r.parts[k].parsed = "none" /\ ~Decodes(r.parts[k].text, r.body)
    /\ ~Decodes(r.output_text, r.body)
    /\ ~Decodes(Text(_extract_output_text(r)), r.body)

\* C18: a reply without a parsed object in which neither a part's text nor
\* the aggregate output text decodes as JSON ends the request with
\* LLMGenerationError("LLM response was not valid JSON.").
C18_UndecodableReplyRejected ==
    (Replied /\ NothingDecodes(ValueOf(reply))) =>
        outcome = Raised("LLMGenerationError", "LLM response was not valid JSON.")

\* a reply of two parts with texts, none of them JSON
C18_Witness ==
    /\ Replied
    /\ NothingDecodes(ValueOf(reply))
    /\ Len(ValueOf(reply).parts) = 2
    /\ HasText(ValueOf(reply).parts[1].text)
    /\ HasText(ValueOf(reply).parts[2].text)
    /\ RaisedWith("LLMGenerationError")

\* what the reply carries is valid JSON or a parsed object, and no mapping:
\* parsed objects are lists, the texts of the parts and output_text are
\* JSON arrays or null, and so is the aggregate output text unless a part
\* carries a parsed object
NonMappingPayload(r) ==
    /\ \A k \in 1..Len(r.parts) :
          /\ r.parts[k].parsed \in {"none", "list"}
          /\ NoMappingIn(r.parts[k].text, r.body)
    /\ NoMappingIn(r.output_text, r.body)
    /\ \/ \E k \in 1..Len(r.parts) : r.parts[k].parsed = "list"
       \/ Decodes(Text(_extract_output_text(r)), r.body)

\* C19: a reply whose payload is valid JSON or a parsed object, but no
\* mapping, ends the request with LLMGenerationError("LLM response had
\* unexpected structure."), never with the "not valid JSON" message.
C19_WrongShapeRejectedLate ==
    (Replied /\ NonMappingPayload(ValueOf(reply))) =>
        outcome = Raised("LLMGenerationError", "LLM response had unexpected structure.")

\* a reply whose only text is JSON null
C19_Witness ==
    /\ Replied
    /\ NonMappingPayload(ValueOf(reply))
    /\ Len(ValueOf(reply).parts) = 1
    /\ ValueOf(reply).parts[1].text = Text(<<"null">>)
    /\ ValueOf(reply).parts[1].type = "output_text"
    /\ RaisedWith("LLMGenerationError")

---------------------------------------------------------------------------
(* C20 *)

\* a mapping whose code, description and explanation are strings
WellFormed(entry) ==
    /\ entry.is_dict
    /\ entry.code_is_str
    /\ entry.description_is_str
    /\ entry.explanation_is_str

WellFormedAt(items) == {k \in 1..Len(items) : WellFormed(items[k])}

\* out holds, in input order, one whole entry for each well-formed entry
\* of items and nothing else
ExactlyWellFormed(items, out) ==
    /\ Len(out) = Cardinality(WellFormedAt(items))
    /\ \A k \in WellFormedAt(items) :
          LET at == Cardinality({i \in WellFormedAt(items) : i <= k})
          IN  /\ DOMAIN out[at] = {"code", "description", "explanation", "evidence_spans"}
              /\ out[at] = NormalizedEntry(items[k], note)

BucketOutput(value, out) ==
    IF ~value.is_list THEN out = <<>>
    ELSE /\ ExactlyWellFormed(value.items, out)
         /\ out = NormalizedEntries(BucketValue(TRUE, SelectSeq(value.items, WellFormed)), note)

HasBody == Replied /\ TypeOf(_extract_parsed_output(ValueOf(reply))) = "mapping"

\* C20: malformed code entries never fail a request: a bucket that is no list
\* comes out as the empty list, and a list comes out as its well-formed
\* entries, whole and in input order, as if the other entries were not there.
C20_MalformedEntriesDropped ==
    HasBody =>
        /\ TypeOf(outcome) = "returned"
        /\ BucketOutput(ValueOf(reply).body.icd_codes, ValueOf(outcome).icd_codes)
        /\ BucketOutput(ValueOf(reply).body.cpt_codes, ValueOf(outcome).cpt_codes)

\* a malformed entry between two well-formed ones, beside a bucket that is
\* no list
C20_Witness ==
    /\ HasBody
    /\ TypeOf(outcome) = "returned"
    /\ ~ValueOf(reply).body.cpt_codes.is_list
    /\ LET items == ValueOf(reply).body.icd_codes.items
       IN  /\ Len(items) = 3
           /\ WellFormedAt(items) = {1, 3}
           /\ items[2].is_dict
           /\ items[1] # items[3]
    /\ Len(ValueOf(outcome).icd_codes) = 2
    /\ ValueOf(outcome).icd_codes[1] # ValueOf(outcome).icd_codes[2]

---------------------------------------------------------------------------
(* C21 *)

\* s has no leading and no trailing whitespace
Trimmed(s) == Strip(s) = s

TrimmedSpan(sp) ==
    /\ Trimmed(sp.explanation)
    /\ ~IsGrounded(sp) => Trimmed(sp.text)

TrimmedEntry(e) ==
    /\ Trimmed(e.code)
    /\ Trimmed(e.description)
    /\ Trimmed(e.explanation)
    /\ \A k \in 1..Len(e.evidence_spans) : TrimmedSpan(e.evidence_spans[k])

TrimmedEntries(out) == \A k \in 1..Len(out) : TrimmedEntry(out[k])

\* C21: every string field of the returned result is trimmed: the reasoning,
\* the code, description and explanation of every entry, the explanation of
\* every span and the text of every unresolved span.
C21_StringFieldsTrimmed ==
    (HasBody /\ TypeOf(outcome) = "returned") =>
        /\ Trimmed(ValueOf(ValueOf(outcome).reasoning))
        /\ TrimmedEntries(ValueOf(outcome).icd_codes)
        /\ TrimmedEntries(ValueOf(outcome).cpt_codes)

---------------------------------------------------------------------------
(* C22 *)

\* the clients the requests served so far have run with
ClientsUsed == UNION {threads[t].got : t \in Threads}

\* C22: the shared client is created once and reused: however the calls of
\* _get_openai_client interleave, at most one client instance is created
\* and all requests run with the same instance.
C22_ClientCreatedOnce ==
    /\ constructed <= 1
    /\ Cardinality(ClientsUsed) <= 1

---------------------------------------------------------------------------
(* C23 *)

\* the parts of r that carry a parsed object
ParsedAt(r) == {k \in 1..Len(r.parts) : r.parts[k].parsed # "none"}

\* C23: whenever a content part of the reply carries a parsed object,
\* _extract_parsed_output returns the parsed object (the first one the reply
\* carries), whatever texts the parts before it and output_text hold.
C23_ParsedObjectPreferred ==
    (Replied /\ ParsedAt(ValueOf(reply)) # {}) =>
        LET r == ValueOf(reply)
        IN  _extract_parsed_output(r) = ParsedOf(r.parts[SetMin(ParsedAt(r))], r.body)

---------------------------------------------------------------------------
(* C24 *)

\* the consumed element k was emitted with the range [i, j)
GroundedAs(k, i, j) ==
    /\ ~Skipped(spans[k])
    /\ LET at == Len(AfterPrefix(k - 1).cleaned) + 1
       IN  cleaned[at].start = i /\ cleaned[at].end = j

\* the trimmed text of element k has an exact occurrence that overlaps none
\* of the ranges allocated before it: the leftmost such occurrence is its range
LeftmostFreeExact(k) ==
    LET s == Strip(spans[k].text)
        free == FreeExact(note, s, AfterPrefix(k - 1).used)
    IN  (~Skipped(spans[k]) /\ free # {}) =>
            GroundedAs(k, SetMin(free), SetMin(free) + Len(s))

\* element k is a claim whose text occurs exactly once in the note, and
\* nothing is allocated when it is reached
OnceUnallocated(k) ==
    /\ IsClaim(spans[k])
    /\ spans[k].text # <<>>
    /\ Cardinality(ExactOccurrences(note, spans[k].text)) = 1
    /\ AfterPrefix(k - 1).used = <<>>

\* the range of element k is an occurrence of its text as given
GroundedToItself(k) ==
    \E i \in ExactOccurrences(note, spans[k].text) :
        GroundedAs(k, i, i + Len(spans[k].text))

\* C24 as stated: a claim whose trimmed text has an exact occurrence free of
\* used_ranges gets the leftmost such occurrence, touching a used range
\* being no overlap; and a claim S that occurs exactly once with nothing
\* allocated is grounded with note[start:end] == S.
C24_ExactMatchAsStated ==
    \A k \in 1..Len(spans) :
        /\ LeftmostFreeExact(k)
        /\ OnceUnallocated(k) => GroundedToItself(k)

\* C24 amended: the same, the last part for an S that neither starts nor
\* ends with whitespace.
C24_ExactMatch ==
    \A k \in 1..Len(spans) :
        /\ LeftmostFreeExact(k)
        /\ (OnceUnallocated(k) /\ Strip(spans[k].text) = spans[k].text) =>
               GroundedToItself(k)

\* the second claim takes an exact occurrence that touches the range of the
\* first, passing an occurrence in another case that lies before both
C24_Witness ==
    /\ Len(spans) = 2
    /\ Len(cleaned) = 2
    /\ IsGrounded(cleaned[1])
    /\ cleaned[2].start = cleaned[1].end
    /\ OccursAt(note, Strip(spans[2].text), cleaned[2].start)
    /\ \E i \in Offsets(note) :
          /\ i < cleaned[1].start
          /\ OccursAtIgnoringCase(note, Strip(spans[2].text), i)
          /\ ~OccursAt(note, Strip(spans[2].text), i)

---------------------------------------------------------------------------
(* C25 *)

\* the forms (a) to (e) of a trimmed claim, in this order; (d) and (e)
\* exist only when the claim starts or ends with a quote character
FormsInOrder(t) ==
    LET b == StripChars(t, QUOTE_CHARS)
        c == RStripChars(b, TRAILING_PUNCTUATION)
        d == IF t[1] \in QUOTE_CHARS THEN <<Tail(t)>> ELSE <<>>
        e == IF t[Len(t)] \in QUOTE_CHARS THEN <<SubSeq(t, 1, Len(t) - 1)>> ELSE <<>>
    IN  <<t, b, c>> \o d \o e

\* the forms of element k that have an occurrence, in any case, overlapping
\* none of the ranges allocated before it
UsableForms(k) ==
    LET forms == FormsInOrder(Strip(spans[k].text))
        used == AfterPrefix(k - 1).used
    IN  {f \in 1..Len(forms) :
            /\ Strip(forms[f]) # <<>>
            /\ FreeIgnoringCase(note, Strip(forms[f]), used) # {}}

\* the range emitted for element k is a free occurrence of the form s
MatchOf(k, s) ==
    \E i \in FreeIgnoringCase(note, s, AfterPrefix(k - 1).used) :
        GroundedAs(k, i, i + Len(s))

\* C25: the range emitted for a claim is the match of the first of the forms
\* (a) claim, (b) wrapping quotes stripped, (c) trailing punctuation stripped
\* from (b), (d) leading quote removed, (e) trailing quote removed that has
\* an occurrence overlapping no used range; a claim none of whose forms has
\* one is unresolved.
C25_FirstUsableCandidateWins ==
    \A k \in 1..Len(spans) :
        ~Skipped(spans[k]) =>
            IF UsableForms(k) = {} THEN GroundedAs(k, -1, -1)
            ELSE MatchOf(k, Strip(FormsInOrder(Strip(spans[k].text))[SetMin(UsableForms(k))]))

---------------------------------------------------------------------------
(* C26 *)

SetMax(S) == CHOOSE x \in S : \A y \in S : y <= x

\* the entries consumed so far that are mappings: _sanitize_spans has been
\* called for each of them, last for the last one
MappingEntries == {k \in 1..Len(entries) : entries[k].entry.is_dict}

\* the element gets no output span: it is no mapping with a string text, or
\* its text is empty after trimming
WithoutSpan(item) ==
    \/ ~item.is_dict
    \/ ~item.text_is_str
    \/ Strip(item.text) = <<>>

WithSpanAt(items) == {i \in 1..Len(items) : ~WithoutSpan(items[i])}

\* the span sp was emitted for the claim item
SpanOf(sp, item) ==
    /\ sp.explanation = IF item.expl_is_str THEN Strip(item.explanation) ELSE <<>>
    /\ \/ sp.text = Strip(item.text)
       \/ /\ IsGrounded(sp)
          /\ \E f \in 1..Len(FormsInOrder(Strip(item.text))) :
                Lower(sp.text) = Lower(Strip(FormsInOrder(Strip(item.text))[f]))

\* out holds one span for each element of items that gets one, in the
\* order of items
OneSpanPerClaim(items, out) ==
    /\ Len(out) = Cardinality(WithSpanAt(items))
    /\ \A i \in WithSpanAt(items) :
          SpanOf(out[Cardinality({j \in WithSpanAt(items) : j <= i})], items[i])

\* C26: _sanitize_spans returns one span per claim, in the order of the
\* claims, none for an element that is no mapping with a string text or
\* whose text is empty after trimming, and the empty list for evidence_spans
\* that is no list.
C26_OneSpanPerClaimInOrder ==
    MappingEntries # {} =>
        LET entry == entries[SetMax(MappingEntries)].entry
        IN  IF ~entry.is_list THEN cleaned = <<>>
            ELSE OneSpanPerClaim(entry.evidence_spans, cleaned)

\* a list whose first element gets no span and whose second is grounded,
\* after an entry whose evidence_spans is no list
C26_Witness ==
    /\ Len(entries) = 2
    /\ MappingEntries = {1, 2}
    /\ ~entries[1].entry.is_list
    /\ entries[2].entry.is_list
    /\ Len(entries[2].entry.evidence_spans) = 2
    /\ WithSpanAt(entries[2].entry.evidence_spans) = {2}
    /\ Len(cleaned) = 1
    /\ IsGrounded(cleaned[1])

---------------------------------------------------------------------------
(* C27 *)

\* _invoke_openai has built the payload for the options in extras
Built == pc \in {"created", "done"} /\ TypeOf(payload) = "opts"

Given(x) == x \notin {Absent, PyNone}

EffortOf(e) == Opts([NoOptions EXCEPT !["effort"] = e])

\* the effort injected for the reasoning-capable family
DefaultEffort ==
    IF request.default_effort \in {"minimal", "low", "medium", "high"}
    THEN Str(request.default_effort)
    ELSE Str("minimal")

ReasoningFamily == StartsWith(request.model_name, <<"gpt-5">>)

\* the reasoning the payload carries is the caller's when the caller set
\* one (`sets`), the default for the reasoning-capable family, none for
\* another family
ReasoningCarried(sets) ==
    LET o == ValueOf(extras)
        p == ValueOf(payload)
    IN  IF sets
        THEN p["reasoning"] = IF Given(o["reasoning"]) THEN o["reasoning"]
                              ELSE EffortOf(o["reasoning_effort"])
        ELSE IF ReasoningFamily THEN p["reasoning"] = EffortOf(DefaultEffort)
        ELSE p["reasoning"] = Absent

\* C27 as stated: for a gpt-5 model and options that set neither reasoning
\* nor reasoning_effort the payload carries the configured default effort,
\* or minimal when that is none of minimal, low, medium, high; options that
\* set one of them have the caller's effort in the payload; other models get
\* no reasoning injected.
C27_DefaultReasoningAsStated ==
    Built =>
        ReasoningCarried(Given(ValueOf(extras)["reasoning"])
                           \/ Given(ValueOf(extras)["reasoning_effort"]))

\* C27 amended: the same, an empty reasoning_effort counting as not set.
C27_DefaultReasoning ==
    Built =>
        ReasoningCarried(Given(ValueOf(extras)["reasoning"])
                           \/ Truthy(Get(ValueOf(extras), "reasoning_effort")))

\* a gpt-5 model, a configured effort outside the four values and options
\* with an empty reasoning_effort: the payload carries minimal
C27_Witness ==
    /\ Built
    /\ ReasoningFamily
    /\ request.default_effort = "bogus"
    /\ ValueOf(extras)["reasoning"] = Absent
    /\ ValueOf(extras)["reasoning_effort"] = Str("")
    /\ ValueOf(payload)["reasoning"] = EffortOf(Str("minimal"))

---------------------------------------------------------------------------
(* C28 *)

\* the spans emitted so far for the first k claims
EmittedForFirst(k) == SubSeq(cleaned, 1, Len(AfterPrefix(k).cleaned))

\* the range of the span emitted for claim k overlaps no range held by an
\* earlier claim
YieldsToEarlier(k) ==
    ~Skipped(spans[k]) =>
        LET sp == cleaned[Len(AfterPrefix(k - 1).cleaned) + 1]
        IN  IsGrounded(sp) => FreeOf(AfterPrefix(k - 1).used, sp.start, sp.end)

\* C28: the spans emitted for the first k claims are those of a run of the
\* grounder on the first k claims alone, and the range of a claim never
\* overlaps a range an earlier claim holds.
C28_EarlierClaimsUnaffected ==
    \A k \in 1..Len(spans) :
        /\ EmittedForFirst(k) = _sanitize_spans(TRUE, SubSeq(spans, 1, k), note)
        /\ YieldsToEarlier(k)

\* the second claim, alone, would get the range the first claim holds
C28_Witness ==
    /\ Len(spans) = 2
    /\ Len(cleaned) = 2
    /\ IsGrounded(cleaned[1])
    /\ ~Skipped(spans[2])
    /\ LET alone == _sanitize_spans(TRUE, <<spans[2]>>, note)
       IN  /\ alone[1].start = cleaned[1].start
           /\ alone[1].end = cleaned[1].end
    /\ cleaned[2].start # cleaned[1].start
    /\ spans[1].text # spans[2].text

---------------------------------------------------------------------------
(* C29 *)

HasReturned == located \notin {Called, Scanning}

\* C29: the scan of _locate_span terminates: search_start never decreases
\* and grows with every iteration that goes on scanning, the body of the
\* loop runs at most len(note) + 1 times, and the call returns.
C29_ScanTerminates ==
    /\ [][/\ search_start_' >= search_start_
          /\ (located = Scanning /\ located' = Scanning) => search_start_' > search_start_
          /\ iterations' <= Len(note) + 1]_vars
    /\ <>HasReturned

\* a scan that needed len(note) + 1 iterations to return
C29_Witness ==
    /\ HasReturned
    /\ Len(note) >= 2
    /\ iterations = Len(note) + 1

---------------------------------------------------------------------------
(* C30 *)

\* the span is grounded inside the note, or unresolved
WellFormedSpan(sp) ==
    \/ 0 <= sp.start /\ sp.start < sp.end /\ sp.end <= Len(note)
    \/ sp.start = -1 /\ sp.end = -1

\* the ranges of the grounded spans emitted so far, in the order emitted
GroundedRanges ==
    LET grounded == SelectSeq(cleaned, IsGrounded)
    IN  [k \in 1..Len(grounded) |-> <<grounded[k].start, grounded[k].end>>]

\* C30: every emitted span has 0 <= start < end <= len(note) or
\* start == end == -1, and used_ranges holds exactly the ranges of the
\* grounded spans emitted so far.
C30_SpansInsideTheNote ==
    /\ \A k \in 1..Len(cleaned) : WellFormedSpan(cleaned[k])
    /\ used_ranges = GroundedRanges

====
